---- MODULE Spec2Model ----
(***************************************************************************)
(* Model of the rate limiting subsystem of Embeddle                        *)
(* (src/api/security/rate_limiter.py).                                     *)
(*                                                                         *)
(* RateLimiter.check is modelled store call by store call: every call to   *)
(* the Redis client is one step of the invocation, it either succeeds or   *)
(* raises, and the clock and the store's key expiry run beside it.  The    *)
(* store holds the three keys of one (tier, identifier) pair: the window   *)
(* sorted set, the violation counter and the block record.                 *)
(***************************************************************************)
EXTENDS Integers, Sequences, FiniteSets, TLC

(***************************************************************************)
(* Bounds of the model.                                                    *)
(***************************************************************************)
\* check() invocations started in one behaviour
MaxChecks == 5
\* advances of the clock in one behaviour
MaxTicks == 2
\* store calls (client construction included) that raise in one behaviour
MaxFaults == 1
\* largest value of the violation counter that earlier invocations left
MaxInitViolations == 8

(***************************************************************************)
(* Values.                                                                 *)
(***************************************************************************)
ALLOWED == "allowed"
RATE_LIMITED == "rate_limited"
BLOCKED == "blocked"
\* what a caller would see if check() let an exception escape
RAISED == "raised"
RateLimitResult == {ALLOWED, RATE_LIMITED, BLOCKED}

\* Python's None, for a metadata field that is not set and for a key without expiry
None == -1

\* the invocations that may run check(); id(self) of the limiter each one uses
Procs == {"p1", "p2"}
InstanceIds == {"0x7f01", "0x7f02"}

\* RateLimitConfig: the tiers of the configuration table
RateLimitConfig ==
  [ GENERAL |-> [max_requests |-> 60, window_seconds |-> 60, prefix |-> "ratelimit:general"],
    GAME_CREATE |-> [max_requests |-> 3, window_seconds |-> 60, prefix |-> "ratelimit:create"],
    JOIN |-> [max_requests |-> 10, window_seconds |-> 60, prefix |-> "ratelimit:join"],
    GUESS |-> [max_requests |-> 30, window_seconds |-> 60, prefix |-> "ratelimit:guess"],
    CHAT |-> [max_requests |-> 15, window_seconds |-> 60, prefix |-> "ratelimit:chat"],
    EMBEDDING |-> [max_requests |-> 20, window_seconds |-> 60, prefix |-> "ratelimit:embedding"],
    EMBEDDING_DAILY |-> [max_requests |-> 500, window_seconds |-> 86400, prefix |-> "ratelimit:embedding_daily"],
    AUTH |-> [max_requests |-> 10, window_seconds |-> 300, prefix |-> "ratelimit:auth"],
    WEBHOOK |-> [max_requests |-> 30, window_seconds |-> 60, prefix |-> "ratelimit:webhook"] ]

\* the tiers a behaviour of the model builds its limiter from
ModelTiers == {"GAME_CREATE"}

\* time.time() when the behaviour starts (any second later than every window)
StartTime == 100000

\* redis.expire(violation_key, 3600)
ViolationTTL == 3600
\* if violations and int(violations) >= 3
BlockThreshold == 3
\* min(3600, 60 * (2 ** (int(violations) - 3)))
BlockBase == 60
BlockCap == 3600

VARIABLES
  clock,           \* int(time.time()) would return this now
  redis_client,    \* the module global _redis_client: "None" or "client"
  limiter,         \* the RateLimiter: max_requests, window_seconds, prefix, fail_closed
  zset,            \* the window sorted set at key: set of [member, score]
  zset_ttl,        \* its expiry time, None when the key has none
  violations,      \* the counter at key:violations, 0 when the key is absent
  violations_ttl,  \* its expiry time, None when the key has none
  block,           \* the value at key:blocked (an unblock time), None when absent
  block_ttl,       \* its expiry time
  pc,              \* where each invocation is in check()
  loc,             \* its locals: now, self_id, count, violations; raised: the call that raised
  ret,             \* what its check() returned: (result, metadata)
  first_at,        \* history: now of the first check() of the behaviour, None before it
  over_quota,      \* history: number of checks that found count >= max_requests (line 175)
  inserted,        \* history: the scores of the entries zadd has written
  checks,          \* history: number of check() calls started
  ticks,           \* history: number of clock advances
  faults,          \* history: number of store calls that raised
  init_violations, \* history: the violation counter the behaviour started with
  rested           \* history: the number of checks made before the long rest, None before it

\* The state of the parts of the program beside one limiter's check(): the
\* store keys the limiters address.
VARIABLES
  store_keys,      \* the keys check() has addressed: [key, config_name, identifier, part]
  rate_limiters,   \* the module global _rate_limiters: cache key -> RateLimiter
  built,           \* history: number of RateLimiter objects constructed
  got,             \* history: the last get_rate_limiter call and how it ended
  returned,        \* history: the instances get_rate_limiter has returned, by arguments
  store,           \* the keys of every pair check_embedding_rate_limit checks, by window key
  emb,             \* history: the last check_embedding_rate_limit call and what it returned
  emb_calls,       \* history: number of check_embedding_rate_limit calls
  mon_client,      \* the monitor's self._redis_client: "None" or "client"
  event_log,       \* the sorted sets security_events:{type}: the events logged since Init
  log_older,       \* by type: the entries of its sorted set logged before Init
  log_ttl,         \* by type: the expiry time of its sorted set, None when it has none
  alert_counters,  \* the alert counters by key: [count, ttl], count 0 when absent
  alerts,          \* the list security_alerts, newest first: the alerts pushed since Init
  alerts_older,    \* the alerts pushed before Init that are still at its tail
  ev,              \* history: the last log_event call and how it ended
  times,           \* history: by counter key, the timestamps of the matching events logged
  lapsed,          \* history: the counter keys that have expired
  events,          \* history: number of log_event calls
  mon_ticks,       \* history: number of clock advances between log_event calls
  read,            \* history: the last get_recent_events or get_alerts call and its result
  wpc,             \* where each concurrent invocation is in log_event
  wloc             \* its locals: the event, the alert it is to write

keys_vars == <<store_keys>>
registry_vars == <<rate_limiters, built, got, returned>>
embed_vars == <<store, emb, emb_calls>>
monitor_vars == <<mon_client, event_log, log_older, log_ttl, alert_counters, alerts,
                  alerts_older, ev, times, lapsed, events, mon_ticks, read, wpc, wloc>>

\* the variables check(), the clock and the expiry of the limiter's keys leave alone
others == <<keys_vars, registry_vars, embed_vars, monitor_vars>>

vars == <<clock, redis_client, limiter, zset, zset_ttl, violations, violations_ttl,
          block, block_ttl, pc, loc, ret, first_at, over_quota, inserted,
          checks, ticks, faults, init_violations, rested, others>>

NoLoc == [now |-> None, self_id |-> "", count |-> None, violations |-> None, raised |-> ""]
NoRet == [result |-> "", remaining |-> None, reset_at |-> None,
          blocked_until |-> None, violations |-> None, error |-> FALSE]

RECURSIVE Pow2(_)
Pow2(n) == IF n <= 0 THEN 1 ELSE 2 * Pow2(n - 1)

Min(a, b) == IF a <= b THEN a ELSE b
Max(a, b) == IF a >= b THEN a ELSE b

\* RateLimiter.__init__ from a tier of the table, as get_rate_limiter builds it
RateLimiter(config_name, fail_closed) ==
  [max_requests |-> RateLimitConfig[config_name].max_requests,
   window_seconds |-> RateLimitConfig[config_name].window_seconds,
   prefix |-> RateLimitConfig[config_name].prefix,
   fail_closed |-> fail_closed]

\* an identifier longer than 64 characters (65)
LongIdentifier == "uuuuuuuuuuuuuuuuuuuuuuuuuuuuuuuuuuuuuuuuuuuuuuuuuuuuuuuuuuuuuuuuu"
\* an identifier of 64 characters, and two longer ones (65, 66) that differ
\* from LongIdentifier only after their 64th character
Identifier64 == "uuuuuuuuuuuuuuuuuuuuuuuuuuuuuuuuuuuuuuuuuuuuuuuuuuuuuuuuuuuuuuuu"
LongIdentifierV == "uuuuuuuuuuuuuuuuuuuuuuuuuuuuuuuuuuuuuuuuuuuuuuuuuuuuuuuuuuuuuuuuv"
LongIdentifierVW == "uuuuuuuuuuuuuuuuuuuuuuuuuuuuuuuuuuuuuuuuuuuuuuuuuuuuuuuuuuuuuuuuvw"
\* a combined identifier longer than 64 characters (72)
LongCombined == "203.0.113.7:aaaaaaaaaaaaaaaaaaaaaaaaaaaaaaaaaaaaaaaaaaaaaaaaaaaaaaaaaaaa"

\* identifiers callers pass to check(): an IP, a user id, the "ip:user_id" of
\* get_combined_identifier (lines 285-293), long ones, and a short one of 16
\* hexadecimal digits
Identifiers ==
  {"203.0.113.7", "u1", "203.0.113.7:u1", "203.0.113.7:blocked",
   "203.0.113.7:violations", "f20e249d15fa4b9f", LongIdentifier, LongCombined}

\* the tiers whose keys are looked at
KeyTiers == {"EMBEDDING", "EMBEDDING_DAILY"}

\* mutant: the digest is taken of the first 64 characters of the identifier
Sha256Hex16OfPrefix(identifier) ==
  CASE identifier \in {LongIdentifier, LongIdentifierV, LongIdentifierVW}
         -> "1a2292f74f3d18b5"
    [] identifier = LongCombined -> "67a6b77722b4d92c"

\* hashlib.sha256(identifier.encode()).hexdigest()[:16], line 103, for the
\* identifiers of the model that are longer than 64 characters
Sha256Hex16(identifier) ==
  CASE identifier = LongIdentifier -> "f20e249d15fa4b9f"
    [] identifier = LongIdentifierV -> "abf5669e6d80f1c3"
    [] identifier = LongIdentifierVW -> "14a13220aa32dfb4"
    [] identifier = LongCombined -> "e85457c2ed9d6280"

\* RateLimiter._get_key, lines 99-104
get_key(prefix, identifier) ==
  prefix \o ":" \o (IF Len(identifier) > 64 THEN Sha256Hex16(identifier) ELSE identifier)

\* block_key = f"{key}:blocked", line 134
BlockKey(key) == key \o ":blocked"

\* violation_key = f"{key}:violations", line 177
ViolationKey(key) == key \o ":violations"

\* the names get_rate_limiter is called with: tiers, names of other attributes
\* of the class RateLimitConfig, and names of no attribute
ConfigNames == {"GENERAL", "EMBEDDING", "NOPE", "general", "__doc__", "__init__",
                "__dict__", "__class__"}

\* f"{fail_closed}" of a bool
Str(b) == IF b THEN "True" ELSE "False"

\* cache_key = f"{config_name}:{fail_closed}", line 243, with the argument pair
\* kept in place of the text
CacheKeyByName(config_name, fail_closed) == config_name
CacheKey(config_name, fail_closed) == config_name \o ":" \o Str(fail_closed)

\* the cache keys of the model: of those names and of the tiers of
\* check_embedding_rate_limit
CacheKeys ==
  {CacheKey(n, fc) : n \in ConfigNames \cup {"EMBEDDING", "EMBEDDING_DAILY"}, fc \in BOOLEAN}

\* a cache key that is not in _rate_limiters
NoLimiter == [id |-> 0]
NoGot == [config_name |-> "", fail_closed |-> FALSE, raised |-> "", id |-> 0, hit |-> FALSE]

\* _rate_limiters = {}, line 229
RegistryEmpty ==
  /\ rate_limiters = [k \in CacheKeys |-> NoLimiter]
  /\ built = 0
  /\ got = NoGot
  /\ returned = {}

\* the callers of check_embedding_rate_limit: IPs, and user ids ("" is the
\* anonymous caller: None and the empty string are both false at lines 291, 315)
Ips == {"5.5.5.5", "6.6.6.6"}
UserIds == {"", "u1"}

\* user_id = None, the default of line 285
NoUser == "None"

\* `if user_id:`, line 291: None and the empty string are false
Truthy(user_id) == user_id \notin {NoUser, ""}

\* get_combined_identifier, lines 285-293
get_combined_identifier(ip, user_id) ==
  IF Truthy(user_id) THEN ip \o ":" \o user_id ELSE ip

\* the window key of an identifier in a tier
WindowKey(config_name, identifier) ==
  get_key(RateLimitConfig[config_name].prefix, identifier)

\* the window keys of the two tiers of check_embedding_rate_limit for the
\* identifiers that can be made of those callers
EmbedKeys ==
  {WindowKey(t, id) : t \in {"EMBEDDING", "EMBEDDING_DAILY"},
                      id \in {get_combined_identifier(ip, u) : ip \in Ips, u \in UserIds}
                                \cup (UserIds \ {""})}

\* those of the daily tier
DailyKeys ==
  {WindowKey("EMBEDDING_DAILY", id) :
     id \in {get_combined_identifier(ip, u) : ip \in Ips, u \in UserIds}
              \cup (UserIds \ {""})}

\* The keys of one pair in the store.  The entries of the window set are all
\* inside the window: `older` of them have scores before the clock second of
\* the behaviour, at_now holds the id(self) of the entries scored in it.
NoEntries == [older |-> 0, at_now |-> {}, violations |-> 0, block |-> None]

NoEmb == [ip |-> "", user_id |-> "", fail |-> <<>>, consulted |-> <<>>,
          allowed |-> FALSE, message |-> "", seconds |-> None,
          minute_count |-> None, minute_blocked |-> FALSE, daily_count |-> None]

\* check_embedding_rate_limit has not been called
EmbedIdle ==
  /\ emb = NoEmb
  /\ emb_calls = 0

\* the thresholds and the window of the alert rules
RATE_LIMIT_ALERT_THRESHOLD == 10
AUTH_FAILURE_ALERT_THRESHOLD == 5
WEBHOOK_ALERT_THRESHOLD == 3
SUSPICIOUS_PATTERN_WINDOW == 300
\* zremrangebyrank(key, 0, -1001) keeps the last 1000 events of a type
EventLogCap == 1000
\* redis.expire(key, 604800): the sorted set of a type lives 7 days
EventLogTTL == 604800
\* ltrim("security_alerts", 0, 99) keeps the last 100 alerts
AlertListCap == 100

\* SecurityEventType values: the three that have an alert rule (lines 160,
\* 174, 188) and one that has none
RATE_LIMIT_HIT == "rate_limit_hit"
AUTH_FAILURE == "auth_failure"
WEBHOOK_INVALID == "webhook_invalid"
AUTH_SUCCESS == "auth_success"
Rules == {RATE_LIMIT_HIT, AUTH_FAILURE, WEBHOOK_INVALID}
EventTypes == Rules \cup {AUTH_SUCCESS}

\* the IPs of the events of the model; an event's ip_address can also be ""
\* (None and the empty string are both false at lines 162, 176, 190)
MonIps == {"1.2.3.4", "5.6.7.8"}

\* the events of the model, as (event_type, ip_address): each rule's from one
\* IP, one from another IP, one without a rule and one without an IP
MonEvents == {<<RATE_LIMIT_HIT, "1.2.3.4">>, <<AUTH_FAILURE, "1.2.3.4">>,
              <<WEBHOOK_INVALID, "1.2.3.4">>, <<AUTH_FAILURE, "5.6.7.8">>,
              <<AUTH_SUCCESS, "1.2.3.4">>, <<WEBHOOK_INVALID, "">>}

\* the counter key of a rule and an IP, lines 163, 177, 191
AlertKey(event_type, ip) ==
  CASE event_type = RATE_LIMIT_HIT -> "security_alerts:ratelimit:" \o ip
    [] event_type = AUTH_FAILURE -> "security_alerts:authfail:" \o ip
    [] event_type = WEBHOOK_INVALID -> "security_alerts:webhook:" \o ip
    [] OTHER -> ""

AlertKeys == {AlertKey(t, ip) : t \in Rules, ip \in MonIps}

NoCounter == [count |-> 0, ttl |-> None]
NoEv == [event_type |-> "", ip_address |-> "", fail |-> "", outcome |-> "", console |-> ""]
\* no get_recent_events and no get_alerts has been called
NoRead == [call |-> "", event_type |-> "", limit |-> None, fail |-> "", outcome |-> "",
           events |-> <<>>, older |-> [t \in EventTypes |-> 0],
           taken |-> [t \in EventTypes |-> 0], alerts |-> <<>>, tail |-> 0]
\* the invocations that run log_event concurrently
Writers == {"w1", "w2"}
NoAlert == [message |-> "", ip |-> "", count |-> None, timestamp |-> None]
NoWloc == [event_type |-> "", ip_address |-> "", alert |-> NoAlert]

\* the monitor after SecurityMonitor.__init__ (lines 93-95), no counter in
\* the store; the store holds the events and the alerts written more than
\* 300 seconds before: `older` events by type, all with timestamps below
\* StartTime and the last of them written at StartTime - 301, and `pushed`
\* alerts
MonitorHolding(older, pushed) ==
  /\ mon_client = "None"
  /\ event_log = {}
  /\ log_older = older
  /\ log_ttl = [t \in EventTypes |->
                 IF older[t] = 0 THEN None
                 ELSE StartTime - SUSPICIOUS_PATTERN_WINDOW - 1 + EventLogTTL]
  /\ alert_counters = [k \in AlertKeys |-> NoCounter]
  /\ alerts = <<>>
  /\ alerts_older = pushed
  /\ ev = NoEv
  /\ times = [k \in AlertKeys |-> <<>>]
  /\ lapsed = {}
  /\ events = 0
  /\ mon_ticks = 0
  /\ read = NoRead
  /\ wpc = [w \in Writers |-> "idle"]
  /\ wloc = [w \in Writers |-> NoWloc]

\* the monitor after SecurityMonitor.__init__ with nothing in the store
MonitorIdle == MonitorHolding([t \in EventTypes |-> 0], 0)

\* The state when the first modelled check() is called: the module has no
\* client yet, the limiter is built from a tier, the window and the block record
\* of the identifier are absent and its violation counter holds a value of V
\* (0: absent).  A counter v > 0 with no block and no window is what earlier
\* invocations leave window_seconds after their last over-quota check, when
\* the block they wrote has expired or its write failed.
Begin(V) ==
  /\ clock = StartTime
  /\ redis_client = "None"
  /\ \E name \in ModelTiers, fc \in BOOLEAN : limiter = RateLimiter(name, fc)
  /\ zset = {}
  /\ zset_ttl = None
  /\ \E v \in V :
       /\ violations = v
       /\ violations_ttl = IF v = 0 THEN None
                           ELSE StartTime + ViolationTTL - limiter.window_seconds
       /\ init_violations = v
  /\ block = None
  /\ block_ttl = None
  /\ pc = [p \in Procs |-> "idle"]
  /\ loc = [p \in Procs |-> NoLoc]
  /\ ret = [p \in Procs |-> NoRet]
  /\ first_at = None
  /\ over_quota = 0
  /\ inserted = {}
  /\ checks = 0
  /\ ticks = 0
  /\ faults = 0
  /\ rested = None

\* no limiter has been looked up and no embedding check made
Calm ==
  /\ store_keys = {}
  /\ RegistryEmpty
  /\ store = [k \in EmbedKeys |-> NoEntries]
  /\ EmbedIdle

\* nothing but the limiter has run: the other parts of the program are as the
\* import of the modules leaves them
Quiet ==
  /\ Calm
  /\ MonitorIdle

\* an identifier that has not been blocked: no counter, or one below the
\* threshold of line 182
Init == Begin(0..BlockThreshold - 1) /\ Quiet

\* an identifier that has violated before
InitRepeat == Begin(1..MaxInitViolations) /\ Quiet

(***************************************************************************)
(* The pieces of check().                                                  *)
(***************************************************************************)
\* the entry key of line 204: f"{now}:{id(self)}"
EntryMember(now, self_id) == <<now, self_id>>

\* window_start = now - self.window_seconds
WindowStart(now) == now - limiter.window_seconds

\* mutant: the upper end of the range is exclusive
ZRemRangeByScoreExclusive(z, lo, hi) == {e \in z : ~(lo <= e.score /\ e.score < hi)}

\* redis.zremrangebyscore(key, 0, window_start): what is left of the set
ZRemRangeByScore(z, lo, hi) == {e \in z : ~(lo <= e.score /\ e.score <= hi)}

\* redis.zadd(key, {member: score}): an existing member gets the new score
ZAdd(z, member, score) ==
  {e \in z : e.member # member} \cup {[member |-> member, score |-> score]}

\* mutant: a counter that is already set is left as it is
RedisIncrOnce(v) == IF v = 0 THEN 1 ELSE v

\* redis.incr(violation_key): an absent key counts from 0
RedisIncr(v) == v + 1

\* mutant: the comparison with now is the wrong way round
IsBlockedReversed(blocked_until, now) == blocked_until # None /\ blocked_until < now

\* if blocked_until: ... if blocked_until > now
IsBlocked(blocked_until, now) == blocked_until # None /\ blocked_until > now

\* mutant: a full window still admits one check
OverQuotaAbove(count) == count > limiter.max_requests

\* if count >= self.max_requests, line 175
OverQuota(count) == count >= limiter.max_requests

\* mutant: only the violation that reaches the threshold blocks
IsRepeatOffenderAtThreshold(v) == v = BlockThreshold

\* if violations and int(violations) >= 3
IsRepeatOffender(v) == v # 0 /\ v >= BlockThreshold

\* mutant: the one hour cap is missing
BlockDurationUncapped(v) == BlockBase * Pow2(v - BlockThreshold)

\* block_duration = min(3600, 60 * (2 ** (int(violations) - 3)))
BlockDuration(v) == Min(BlockCap, BlockBase * Pow2(v - BlockThreshold))

\* mutant: the fail_closed flag is ignored and the store's absence always denies
UnavailableAlwaysClosed(t) ==
  [NoRet EXCEPT !.result = RATE_LIMITED, !.remaining = 0,
                !.reset_at = t + limiter.window_seconds, !.error = TRUE]

\* the fail-closed / fail-open answer of lines 120-130, 164-170 and 216-225
Unavailable(t) ==
  IF limiter.fail_closed
  THEN [NoRet EXCEPT !.result = RATE_LIMITED, !.remaining = 0,
                     !.reset_at = t + limiter.window_seconds, !.error = TRUE]
  ELSE [NoRet EXCEPT !.result = ALLOWED, !.remaining = limiter.max_requests,
                     !.reset_at = t + limiter.window_seconds]

\* the answer of lines 144-148 and 188-193
Blocked(blocked_until, v) ==
  [NoRet EXCEPT !.result = BLOCKED, !.remaining = 0, !.reset_at = blocked_until,
                !.blocked_until = blocked_until, !.violations = v]

\* the answer of lines 197-200
RateLimited(now) ==
  [NoRet EXCEPT !.result = RATE_LIMITED, !.remaining = 0,
                !.reset_at = now + limiter.window_seconds]

\* mutant: remaining does not count the request being admitted
AllowedUncounted(now, count) ==
  [NoRet EXCEPT !.result = ALLOWED,
                !.remaining = Max(0, limiter.max_requests - count),
                !.reset_at = now + limiter.window_seconds]

\* the answer of lines 209-212: remaining = max(0, max_requests - count), minus one
Allowed(now, count) ==
  [NoRet EXCEPT !.result = ALLOWED,
                !.remaining = Max(0, limiter.max_requests - count) - 1,
                !.reset_at = now + limiter.window_seconds]

\* mutant: the try of lines 178-195 is missing, so nothing catches its calls
HandlerWithoutViolationTry(site) ==
  CASE site = "get" -> "outer"
    [] site \in {"zremrangebyscore", "zcard"} -> "count"
    [] site \in {"zadd", "expire"} -> "tracking"
    [] OTHER -> "none"

\* the except clause that catches an exception raised by each store call
Handler(site) ==
  CASE site = "get" -> "outer"
    [] site \in {"zremrangebyscore", "zcard"} -> "count"
    [] site \in {"incr", "expire_violations", "setex"} -> "violation"
    [] site \in {"zadd", "expire"} -> "tracking"
    [] OTHER -> "none"

\* what check() returns when the store call `site` raises
Caught(p, site) ==
  CASE Handler(site) = "outer" -> Unavailable(clock)
    [] Handler(site) = "count" -> Unavailable(loc[p].now)
    [] Handler(site) = "violation" -> RateLimited(loc[p].now)
    [] Handler(site) = "tracking" -> Allowed(loc[p].now, loc[p].count)
    [] OTHER -> [NoRet EXCEPT !.result = RAISED]

\* check() returns r
Finish(p, r) ==
  /\ pc' = [pc EXCEPT ![p] = "done"]
  /\ ret' = [ret EXCEPT ![p] = r]

\* mutant: a store call that raises is counted as a violation
RaisesCounted(p, site) ==
  /\ faults < MaxFaults
  /\ faults' = faults + 1
  /\ loc' = [loc EXCEPT ![p].raised = site]
  /\ Finish(p, Caught(p, site))
  /\ violations' = RedisIncr(violations)
  /\ UNCHANGED <<zset, zset_ttl, violations_ttl, block, block_ttl>>

\* the store call `site` of invocation p raises (an error or a timeout): the
\* call has no effect on the store and the handler's answer is returned
Raises(p, site) ==
  /\ faults < MaxFaults
  /\ faults' = faults + 1
  /\ loc' = [loc EXCEPT ![p].raised = site]
  /\ Finish(p, Caught(p, site))
  /\ UNCHANGED <<zset, zset_ttl, violations, violations_ttl, block, block_ttl>>

\* the variables no step of check() writes
env == <<clock, limiter, ticks, init_violations, rested, others>>

\* no invocation is inside check()
Idle == \A q \in Procs : pc[q] = "idle"

(***************************************************************************)
(* check(), from its call to the first store call: _get_redis() builds the *)
(* client if the module has none (lines 63-76, 116-130), then key and now  *)
(* are computed (lines 133-136).                                           *)
(***************************************************************************)
\* mutant: the failure of the construction is kept in the module's global
ClientAfterFailureKept == "unavailable"

\* _redis_client after a construction that raised, lines 67-76: the except
\* returns None and assigns nothing
ClientAfterFailure == "None"

Start(p) ==
  /\ pc[p] = "idle"
  /\ checks < MaxChecks
  /\ checks' = checks + 1
  /\ first_at' = IF first_at = None THEN clock ELSE first_at
  /\ \E self_id \in InstanceIds :
       \/ /\ redis_client' = "client"
          /\ loc' = [loc EXCEPT ![p] = [NoLoc EXCEPT !.now = clock, !.self_id = self_id]]
          /\ pc' = [pc EXCEPT ![p] = "get"]
          /\ UNCHANGED <<ret, faults>>
       \/ /\ redis_client = "None"
          /\ faults < MaxFaults
          /\ faults' = faults + 1
          /\ redis_client' = ClientAfterFailure
          /\ loc' = [loc EXCEPT ![p] = [NoLoc EXCEPT !.now = clock, !.self_id = self_id,
                                                     !.raised = "client"]]
          /\ Finish(p, Unavailable(clock))
  /\ UNCHANGED <<zset, zset_ttl, violations, violations_ttl, block, block_ttl,
                 over_quota, inserted>>
  /\ UNCHANGED env

\* mutant: the window is pruned before the block record is looked at
WindowOnBlockedPruned(z, now) == ZRemRangeByScore(z, 0, WindowStart(now))

\* the window set after the return of lines 144-148: the branch makes no
\* store call
WindowOnBlocked(z, now) == z

\* blocked_until = redis.get(block_key), lines 139-150
GetBlock(p) ==
  /\ pc[p] = "get"
  /\ \/ /\ IsBlocked(block, loc[p].now)
        /\ Finish(p, Blocked(block, None))
        /\ zset' = WindowOnBlocked(zset, loc[p].now)
        /\ UNCHANGED <<loc, faults, zset_ttl, violations, violations_ttl,
                       block, block_ttl>>
     \/ /\ ~IsBlocked(block, loc[p].now)
        /\ pc' = [pc EXCEPT ![p] = "zremrangebyscore"]
        /\ UNCHANGED <<loc, ret, faults, zset, zset_ttl, violations, violations_ttl,
                       block, block_ttl>>
     \/ Raises(p, "get")
  /\ UNCHANGED <<redis_client, checks, first_at, over_quota, inserted>>
  /\ UNCHANGED env

\* redis.zremrangebyscore(key, 0, window_start), line 156; an emptied set is no key
ZRem(p) ==
  /\ pc[p] = "zremrangebyscore"
  /\ \/ /\ zset' = ZRemRangeByScore(zset, 0, WindowStart(loc[p].now))
        /\ zset_ttl' = IF zset' = {} THEN None ELSE zset_ttl
        /\ pc' = [pc EXCEPT ![p] = "zcard"]
        /\ UNCHANGED <<loc, ret, faults, violations, violations_ttl, block, block_ttl>>
     \/ Raises(p, "zremrangebyscore")
  /\ UNCHANGED <<redis_client, checks, first_at, over_quota, inserted>>
  /\ UNCHANGED env

\* count = redis.zcard(key), lines 157-160, and the branch of line 175
ZCard(p) ==
  /\ pc[p] = "zcard"
  /\ \/ /\ loc' = [loc EXCEPT ![p].count = Cardinality(zset)]
        /\ IF OverQuota(Cardinality(zset))
           THEN pc' = [pc EXCEPT ![p] = "incr"] /\ over_quota' = over_quota + 1
           ELSE pc' = [pc EXCEPT ![p] = "zadd"] /\ UNCHANGED over_quota
        /\ UNCHANGED <<ret, faults, zset, zset_ttl, violations, violations_ttl,
                       block, block_ttl>>
     \/ Raises(p, "zcard") /\ UNCHANGED over_quota
  /\ UNCHANGED <<redis_client, checks, first_at, inserted>>
  /\ UNCHANGED env

\* violations = redis.incr(violation_key), line 179; the key keeps its expiry
Incr(p) ==
  /\ pc[p] = "incr"
  /\ \/ /\ violations' = RedisIncr(violations)
        /\ loc' = [loc EXCEPT ![p].violations = violations']
        /\ pc' = [pc EXCEPT ![p] = "expire_violations"]
        /\ UNCHANGED <<ret, faults, zset, zset_ttl, violations_ttl, block, block_ttl>>
     \/ Raises(p, "incr")
  /\ UNCHANGED <<redis_client, checks, first_at, over_quota, inserted>>
  /\ UNCHANGED env

\* redis.expire(violation_key, 3600), line 180, and the test of line 182
ExpireViolations(p) ==
  /\ pc[p] = "expire_violations"
  /\ \/ /\ violations_ttl' = IF violations = 0 THEN None ELSE clock + ViolationTTL
        /\ IF IsRepeatOffender(loc[p].violations)
           THEN pc' = [pc EXCEPT ![p] = "setex"] /\ UNCHANGED ret
           ELSE Finish(p, RateLimited(loc[p].now))
        /\ UNCHANGED <<loc, faults, zset, zset_ttl, violations, block, block_ttl>>
     \/ Raises(p, "expire_violations")
  /\ UNCHANGED <<redis_client, checks, first_at, over_quota, inserted>>
  /\ UNCHANGED env

\* redis.setex(block_key, block_duration, str(blocked_until)), lines 184-193
SetEx(p) ==
  /\ pc[p] = "setex"
  /\ \/ /\ block' = loc[p].now + BlockDuration(loc[p].violations)
        /\ block_ttl' = clock + BlockDuration(loc[p].violations)
        /\ Finish(p, Blocked(block', loc[p].violations))
        /\ UNCHANGED <<loc, faults, zset, zset_ttl, violations, violations_ttl>>
     \/ Raises(p, "setex")
  /\ UNCHANGED <<redis_client, checks, first_at, over_quota, inserted>>
  /\ UNCHANGED env

\* redis.zadd(key, {f"{now}:{id(self)}": now}), line 204
ZAddEntry(p) ==
  /\ pc[p] = "zadd"
  /\ \/ /\ zset' = ZAdd(zset, EntryMember(loc[p].now, loc[p].self_id), loc[p].now)
        /\ inserted' = inserted \cup {loc[p].now}
        /\ pc' = [pc EXCEPT ![p] = "expire"]
        /\ UNCHANGED <<loc, ret, faults, zset_ttl, violations, violations_ttl,
                       block, block_ttl>>
     \/ Raises(p, "zadd") /\ UNCHANGED inserted
  /\ UNCHANGED <<redis_client, checks, first_at, over_quota>>
  /\ UNCHANGED env

\* redis.expire(key, self.window_seconds + 1), line 205, and the return of line 209
ExpireWindow(p) ==
  /\ pc[p] = "expire"
  /\ \/ /\ zset_ttl' = IF zset = {} THEN None ELSE clock + limiter.window_seconds + 1
        /\ Finish(p, Allowed(loc[p].now, loc[p].count))
        /\ UNCHANGED <<loc, faults, zset, violations, violations_ttl, block, block_ttl>>
     \/ Raises(p, "expire")
  /\ UNCHANGED <<redis_client, checks, first_at, over_quota, inserted>>
  /\ UNCHANGED env

\* the caller has the answer of check()
Return(p) ==
  /\ pc[p] = "done"
  /\ pc' = [pc EXCEPT ![p] = "idle"]
  /\ loc' = [loc EXCEPT ![p] = NoLoc]
  /\ ret' = [ret EXCEPT ![p] = NoRet]
  /\ UNCHANGED <<clock, redis_client, limiter, zset, zset_ttl, violations, violations_ttl,
                 block, block_ttl, first_at, over_quota, inserted,
                 checks, ticks, faults, init_violations, rested, others>>

(***************************************************************************)
(* The clock and the store's expiry.  A key whose expiry time is t is      *)
(* there in every second before t and gone in every second after t; in     *)
(* second t itself it goes at some instant (KeyExpires).  The clock is      *)
(* advanced between the first and the last check() of a behaviour.         *)
(***************************************************************************)
\* the seconds the clock may advance by in one step
Jumps == {1, limiter.window_seconds - 1, limiter.window_seconds}

Expired(ttl, t) == ttl # None /\ ttl < t

\* d seconds pass with no store call: the keys whose expiry time is over go
Elapse(d) ==
  /\ clock' = clock + d
  /\ zset' = IF Expired(zset_ttl, clock') THEN {} ELSE zset
  /\ zset_ttl' = IF Expired(zset_ttl, clock') THEN None ELSE zset_ttl
  /\ violations' = IF Expired(violations_ttl, clock') THEN 0 ELSE violations
  /\ violations_ttl' = IF Expired(violations_ttl, clock') THEN None ELSE violations_ttl
  /\ block' = IF Expired(block_ttl, clock') THEN None ELSE block
  /\ block_ttl' = IF Expired(block_ttl, clock') THEN None ELSE block_ttl
  /\ UNCHANGED <<redis_client, limiter, pc, loc, ret, first_at, over_quota,
                 inserted, checks, faults, init_violations, others>>

Tick(d) ==
  /\ ticks < MaxTicks
  /\ first_at # None
  /\ checks < MaxChecks
  /\ ticks' = ticks + 1
  /\ Elapse(d)
  /\ UNCHANGED rested

KeyExpires ==
  /\ \/ /\ zset_ttl = clock
        /\ zset' = {} /\ zset_ttl' = None
        /\ UNCHANGED <<violations, violations_ttl, block, block_ttl>>
     \/ /\ violations_ttl = clock
        /\ violations' = 0 /\ violations_ttl' = None
        /\ UNCHANGED <<zset, zset_ttl, block, block_ttl>>
     \/ /\ block_ttl = clock
        /\ block' = None /\ block_ttl' = None
        /\ UNCHANGED <<zset, zset_ttl, violations, violations_ttl>>
  /\ UNCHANGED <<clock, redis_client, limiter, pc, loc, ret, first_at, over_quota,
                 inserted, checks, ticks, faults, init_violations, rested, others>>

(***************************************************************************)
(* Spec: the check() calls of one identifier run one at a time, each       *)
(* within the clock second it started in; the identifier has not been      *)
(* blocked before.                                                         *)
(***************************************************************************)
\* the invocation that makes the calls
Caller == CHOOSE p \in Procs : TRUE

Next ==
  \/ Idle /\ Start(Caller)
  \/ \E p \in Procs : GetBlock(p)
  \/ \E p \in Procs : ZRem(p)
  \/ \E p \in Procs : ZCard(p)
  \/ \E p \in Procs : Incr(p)
  \/ \E p \in Procs : ExpireViolations(p)
  \/ \E p \in Procs : SetEx(p)
  \/ \E p \in Procs : ZAddEntry(p)
  \/ \E p \in Procs : ExpireWindow(p)
  \/ \E p \in Procs : Return(p)
  \/ \E d \in Jumps : Idle /\ Tick(d)
  \/ Idle /\ KeyExpires

Spec == Init /\ [][Next]_vars

\* SpecRepeat: the same calls for an identifier that has violated before
SpecRepeat == InitRepeat /\ [][Next]_vars

(***************************************************************************)
(* SpecConc: the check() calls of one identifier are made by the           *)
(* invocations of Procs at once; a call starts whenever its invocation is  *)
(* outside check(), and the store calls of the calls in flight interleave  *)
(* in any order.  The calls in flight together run within one clock        *)
(* second.                                                                 *)
(***************************************************************************)
NextConc ==
  \/ \E p \in Procs : Start(p)
  \/ \E p \in Procs : GetBlock(p)
  \/ \E p \in Procs : ZRem(p)
  \/ \E p \in Procs : ZCard(p)
  \/ \E p \in Procs : Incr(p)
  \/ \E p \in Procs : ExpireViolations(p)
  \/ \E p \in Procs : SetEx(p)
  \/ \E p \in Procs : ZAddEntry(p)
  \/ \E p \in Procs : ExpireWindow(p)
  \/ \E p \in Procs : Return(p)
  \/ \E d \in Jumps : Idle /\ Tick(d)
  \/ Idle /\ KeyExpires

SpecConc == Init /\ [][NextConc]_vars

(***************************************************************************)
(* SpecLockout: the sequential calls of SpecRepeat, for an identifier one  *)
(* violation from a block or with many behind it, and one long rest: the   *)
(* caller leaves the identifier alone for the longest block plus a window. *)
(***************************************************************************)
\* the seconds of the long rest: the cap of line 184 and the tier's window
RestSeconds == BlockCap + limiter.window_seconds

Rest ==
  /\ rested = None
  /\ first_at # None
  /\ checks < MaxChecks
  /\ rested' = checks
  /\ Elapse(RestSeconds)
  /\ UNCHANGED ticks

InitLockout == Begin({BlockThreshold - 1, MaxInitViolations}) /\ Quiet

NextLockout ==
  \/ Next
  \/ Idle /\ Rest

SpecLockout == InitLockout /\ [][NextLockout]_vars

(***************************************************************************)
(* SpecNextCall: the calls of Spec, and a second invocation that makes its *)
(* call when the first has found the store client unavailable and still    *)
(* holds that answer: the call after a failed construction.                *)
(***************************************************************************)
\* the call of invocation p found no client: _get_redis returned None
FoundUnavailable(p) == pc[p] = "done" /\ loc[p].raised = "client"

NextNextCall ==
  \/ Idle /\ Start(Caller)
  \/ \E p \in Procs \ {Caller} : FoundUnavailable(Caller) /\ Start(p)
  \/ \E p \in Procs : GetBlock(p)
  \/ \E p \in Procs : ZRem(p)
  \/ \E p \in Procs : ZCard(p)
  \/ \E p \in Procs : Incr(p)
  \/ \E p \in Procs : ExpireViolations(p)
  \/ \E p \in Procs : SetEx(p)
  \/ \E p \in Procs : ZAddEntry(p)
  \/ \E p \in Procs : ExpireWindow(p)
  \/ \E p \in Procs : Return(p)
  \/ \E d \in Jumps : Idle /\ Tick(d)
  \/ Idle /\ KeyExpires

SpecNextCall == Init /\ [][NextNextCall]_vars

\* SpecRest: the calls of Spec, for an identifier not blocked before, and
\* the long rest
SpecRest == Init /\ [][NextLockout]_vars

(***************************************************************************)
(* The claims.                                                             *)
(***************************************************************************)
\* a run that began with no store state for the identifier and in which no
\* store call has raised
FreshRun == init_violations = 0 /\ faults = 0

\* C1 (as claimed): from no store state and with the store reachable, of the
\* sequential checks that fall within window_seconds of the first exactly the
\* first max_requests return ALLOWED and the next returns RATE_LIMITED with
\* remaining 0.
C1_FirstMaxRequestsAllowed ==
  \A p \in Procs :
    (pc[p] = "done" /\ FreshRun /\ loc[p].now < first_at + limiter.window_seconds)
      => /\ checks <= limiter.max_requests => ret[p].result = ALLOWED
         /\ checks = limiter.max_requests + 1
              => ret[p].result = RATE_LIMITED /\ ret[p].remaining = 0

\* C2 (as claimed): every insert of an admitted check adds exactly one new
\* entry to the window set, never overwriting the entry of another call.
C2_InsertAddsOneEntry ==
  [][\A p \in Procs :
       (pc[p] = "zadd" /\ pc'[p] = "expire")
         => Cardinality(zset') = Cardinality(zset) + 1]_vars

\* C4: when the client cannot be obtained or the first store call fails, a
\* fail-closed limiter returns RATE_LIMITED with remaining 0 and a fail-open
\* limiter returns ALLOWED with remaining max_requests, whatever the store holds.
C4_UnreachableStorePolicy ==
  \A p \in Procs :
    (pc[p] = "done" /\ loc[p].raised \in {"client", "get"})
      => IF limiter.fail_closed
         THEN ret[p].result = RATE_LIMITED /\ ret[p].remaining = 0
         ELSE ret[p].result = ALLOWED /\ ret[p].remaining = limiter.max_requests

\* C4 witness: the store fails under a fail-open limiter whose window is full
C4_Witness ==
  \E p \in Procs :
    /\ pc[p] = "done" /\ loc[p].raised = "get"
    /\ ~limiter.fail_closed
    /\ Cardinality(zset) = limiter.max_requests
    /\ ret[p].result = ALLOWED

\* C5 (as claimed): on a fail-closed limiter a check in which any store call
\* failed never returns ALLOWED.
C5_FailClosedNeverAllowsAfterFailure ==
  \A p \in Procs :
    (pc[p] = "done" /\ limiter.fail_closed /\ loc[p].raised # "")
      => ret[p].result # ALLOWED

\* C6: check() never lets an exception escape: whatever call raised, it returns
\* one of the three results together with its metadata.
C6_CheckAlwaysReturns ==
  \A p \in Procs :
    pc[p] = "done"
      => /\ ret[p].result \in RateLimitResult
         /\ ret[p].remaining # None
         /\ ret[p].reset_at # None

\* C6 witness: the block write raised and check() still returned
C6_Witness ==
  \E p \in Procs :
    pc[p] = "done" /\ loc[p].raised = "setex" /\ ret[p].result = RATE_LIMITED

\* C3: a check that reads a block record whose unblock time is later than its
\* now returns BLOCKED with blocked_until equal to that time, whatever the
\* window holds.
C3_BlockedUntilUnblockTime ==
  [][\A p \in Procs :
       (/\ pc[p] = "get" /\ pc'[p] # "get" /\ faults' = faults
        /\ block # None /\ loc[p].now < block)
         => /\ pc'[p] = "done"
            /\ ret'[p].result = BLOCKED
            /\ ret'[p].blocked_until = block
            /\ ret'[p].remaining = 0
            /\ zset' = zset]_vars

\* C3 witness: BLOCKED by an existing record while no entry of the window is
\* inside the window any more
C3_Witness ==
  \E p \in Procs :
    /\ pc[p] = "done" /\ ret[p].result = BLOCKED /\ ret[p].violations = None
    /\ inserted # {}
    /\ \A e \in zset : e.score <= WindowStart(loc[p].now)

\* C7: an over-quota check that raised the violation counter to v, with no
\* store call failing, returns RATE_LIMITED with remaining 0 when v < 3; when
\* v >= 3 it returns BLOCKED with violations v and a block record whose value
\* and blocked_until are now + min(3600, 60 * 2^(v-3)).
C7_BackoffDuration ==
  \A p \in Procs :
    (pc[p] = "done" /\ loc[p].violations # None /\ loc[p].raised = "")
      => IF loc[p].violations < 3
         THEN ret[p].result = RATE_LIMITED /\ ret[p].remaining = 0
         ELSE /\ ret[p].result = BLOCKED
              /\ ret[p].violations = loc[p].violations
              /\ ret[p].blocked_until
                   = loc[p].now + Min(3600, 60 * Pow2(loc[p].violations - 3))
              /\ block = ret[p].blocked_until
              /\ loc[p].violations = 3 => ret[p].blocked_until = loc[p].now + 60
              /\ loc[p].violations = 4 => ret[p].blocked_until = loc[p].now + 120
              /\ loc[p].violations >= 9 => ret[p].blocked_until = loc[p].now + 3600

\* C7 witness: a block at the one hour cap
C7_Witness ==
  \E p \in Procs :
    /\ pc[p] = "done" /\ loc[p].raised = "" /\ loc[p].violations >= 9
    /\ ret[p].result = BLOCKED /\ block = loc[p].now + 3600

\* C8 (as claimed): the violation counter rises by at most one per window:
\* while every check so far fell within window_seconds of the first, the
\* counter is at most one above its starting value.
C8_OneViolationPerWindow ==
  (first_at # None /\ clock < first_at + limiter.window_seconds)
    => violations <= init_violations + 1

\* C8 (amended): every over-quota check whose increment succeeds raises the
\* counter by one, also inside one window: while every check so far fell within
\* window_seconds of the first and no store call failed, the counter is its
\* starting value plus the number of over-quota checks, and such a check
\* returns BLOCKED exactly when it raised the counter to 3 or more.
C8_ViolationPerOverQuotaCheck ==
  (faults = 0 /\ first_at # None /\ clock < first_at + limiter.window_seconds)
    => /\ violations = init_violations + over_quota
                         - (IF \E p \in Procs : pc[p] = "incr" THEN 1 ELSE 0)
       /\ \A p \in Procs :
            (pc[p] = "done" /\ loc[p].violations # None)
              => (ret[p].result = BLOCKED <=> loc[p].violations >= 3)

\* C8 witness: the second over-quota check of one window raises the counter
\* from 2 to 3 and returns BLOCKED
C8_Witness ==
  \E p \in Procs :
    /\ faults = 0 /\ clock < first_at + limiter.window_seconds
    /\ init_violations = 1 /\ over_quota = 2 /\ violations = 3
    /\ pc[p] = "done" /\ ret[p].result = BLOCKED /\ ret[p].violations = 3

\* C9 (as claimed): GAME_CREATE and a fresh identifier: calls 1-3 return
\* ALLOWED with remaining 2, 1, 0; call 4 inside the window returns
\* RATE_LIMITED; a fifth call made more than 60 s after the admitted calls
\* returns ALLOWED.
C9_GameCreateScenario ==
  \A p \in Procs :
    (/\ pc[p] = "done" /\ FreshRun
     /\ limiter = RateLimiter("GAME_CREATE", limiter.fail_closed))
      => /\ (checks <= 3 /\ loc[p].now < first_at + 60)
              => ret[p].result = ALLOWED /\ ret[p].remaining = 3 - checks
         /\ (checks = 4 /\ loc[p].now < first_at + 60)
              => ret[p].result = RATE_LIMITED
         /\ (checks = 5 /\ \A s \in inserted \ {loc[p].now} : loc[p].now > s + 60)
              => ret[p].result = ALLOWED

\* C10: with no store call failing, the entries a check counts are exactly
\* the inserted entries with score > now - window_seconds: after the prune the
\* window set holds every such entry and no other.
C10_WindowHoldsRecentEntries ==
  \A p \in Procs :
    (pc[p] = "zcard" /\ faults = 0)
      => {e.score : e \in zset}
           = {s \in inserted : s > loc[p].now - limiter.window_seconds}

\* C10 witness: a check made window_seconds after one entry and
\* window_seconds - 1 after another counts the second and not the first
C10_Witness ==
  \E p \in Procs :
    /\ pc[p] = "zcard" /\ faults = 0
    /\ loc[p].now - limiter.window_seconds \in inserted
    /\ loc[p].now - limiter.window_seconds + 1 \in inserted
    /\ {e.score : e \in zset} = {loc[p].now - limiter.window_seconds + 1}

BeforeCount == {"idle", "get", "zremrangebyscore", "zcard"}

\* C32: a check that ends because the store client is unavailable or because
\* the read of the block record, the prune or the count raised has not
\* incremented the violation counter and has not written a block record, in
\* that step or before it; on a fail-closed limiter its answer is
\* RATE_LIMITED with the error field, never BLOCKED.
C32_OutageIsNoViolation ==
  [][\A p \in Procs :
       (pc[p] \in BeforeCount /\ pc'[p] = "done" /\ loc'[p].raised # "")
         => /\ UNCHANGED <<violations, violations_ttl, block, block_ttl>>
            /\ loc'[p].violations = None
            /\ ret'[p].violations = None /\ ret'[p].blocked_until = None
            /\ ret'[p].result # BLOCKED
            /\ limiter.fail_closed
                 => (ret'[p].result = RATE_LIMITED /\ ret'[p].error)]_vars

\* a count that raised has been answered RATE_LIMITED for an identifier one
\* violation away from a block, and the counter is where it was
C32_Witness ==
  \E p \in Procs :
    /\ pc[p] = "done" /\ loc[p].raised = "zcard"
    /\ limiter.fail_closed
    /\ ret[p].result = RATE_LIMITED /\ ret[p].error
    /\ init_violations = BlockThreshold - 1
    /\ violations = init_violations /\ block = None

\* C33: the violation counter is absent again once 3600 seconds have passed
\* without a further violation, also when the expire that follows an
\* increment has failed: at the end of a rest of 3600 + window_seconds
\* seconds without a check there is no counter.
C33_CounterGoneAfterAnHour ==
  (rested # None /\ checks = rested) => violations = 0

\* C34: the expiry of a block record leaves the violation counter as it is,
\* and an over-quota check that finds the counter at v >= 3 and no block in
\* force, its store calls succeeding, raises the counter to v + 1, goes on to
\* write a block record and returns BLOCKED with violations v + 1 and a block
\* of min(3600, 60 * 2^(v-2)) seconds, not RATE_LIMITED.
C34_EscalatesAfterBlockExpired ==
  [][/\ (block # None /\ block' = None /\ violations_ttl' # None)
          => violations' = violations
     /\ \A p \in Procs :
          LET v == loc'[p].violations - 1 IN
          (loc'[p].violations # None /\ loc'[p].raised = "" /\ v >= BlockThreshold)
            => /\ (pc[p] = "incr" /\ pc'[p] # "incr")
                    => (violations = v /\ violations' = v + 1
                        /\ pc'[p] = "expire_violations")
               /\ (pc[p] = "expire_violations" /\ pc'[p] # "expire_violations")
                    => pc'[p] = "setex"
               /\ (pc[p] = "setex" /\ pc'[p] # "setex")
                    => /\ pc'[p] = "done"
                       /\ ret'[p].result = BLOCKED
                       /\ ret'[p].violations = v + 1
                       /\ ret'[p].blocked_until
                            = loc[p].now + Min(BlockCap, BlockBase * Pow2(v - 2))
                       /\ block' = ret'[p].blocked_until]_vars

\* the identifier began with a counter of 3 or more and no block record, as
\* an expired block leaves it, and its over-quota check has been answered
\* BLOCKED with one violation more
C34_Witness ==
  \E p \in Procs :
    /\ pc[p] = "done" /\ loc[p].raised = "" /\ faults = 0
    /\ init_violations >= BlockThreshold
    /\ over_quota = 1
    /\ ret[p].result = BLOCKED
    /\ ret[p].violations = init_violations + 1
    /\ block = loc[p].now + Min(BlockCap, BlockBase * Pow2(init_violations - 2))

(***************************************************************************)
(* The metadata of an answer.                                              *)
(***************************************************************************)
\* C35: the metadata check() returns fits its result: remaining and reset_at
\* are always there; ALLOWED from the window path has remaining equal to
\* max_requests - count - 1, between 0 and max_requests - 1; RATE_LIMITED and
\* BLOCKED have remaining 0; BLOCKED has blocked_until > now and reset_at
\* equal to it; violations is there only on the check that wrote the block
\* record; error is there only when a store call of the check failed.
C35_MetadataFitsResult ==
  \A p \in Procs :
    pc[p] = "done" =>
      LET r == ret[p]  l == loc[p] IN
      /\ r.result \in RateLimitResult
      /\ r.remaining # None /\ r.reset_at # None
      /\ (r.result = ALLOWED /\ l.raised \in {"", "zadd", "expire"})
           => /\ r.remaining = limiter.max_requests - l.count - 1
              /\ 0 <= r.remaining /\ r.remaining <= limiter.max_requests - 1
      /\ r.result \in {RATE_LIMITED, BLOCKED} => r.remaining = 0
      /\ r.result = BLOCKED
           => (r.blocked_until # None /\ r.blocked_until > l.now
               /\ r.reset_at = r.blocked_until)
      /\ r.result # BLOCKED => r.blocked_until = None
      /\ r.violations # None
           => (r.result = BLOCKED /\ l.violations = r.violations
               /\ block = r.blocked_until)
      /\ r.error => l.raised # ""

\* a check has been answered BLOCKED from the block record an earlier check
\* wrote: no violations field, remaining 0, reset_at the unblock time
C35_Witness ==
  \E p \in Procs :
    /\ pc[p] = "done"
    /\ ret[p].result = BLOCKED /\ ret[p].violations = None /\ over_quota > 0
    /\ ret[p].remaining = 0 /\ ret[p].reset_at = block /\ block > loc[p].now

C31_AllowedAfterRest ==
  \A p \in Procs :
    (/\ pc[p] = "done"
     /\ rested # None /\ checks = rested + 1
     /\ loc[p].raised = "")
      => ret[p].result = ALLOWED

\* the identifier was blocked for the whole cap when the rest began, and the
\* check after the rest has been admitted
C31_Witness ==
  \E p \in Procs :
    /\ pc[p] = "done"
    /\ rested # None /\ checks = rested + 1
    /\ loc[p].raised = ""
    /\ ret[p].result = ALLOWED
    /\ init_violations = MaxInitViolations /\ over_quota > 0 /\ faults = 0

(***************************************************************************)
(* Checks of one identifier in flight at once (SpecConc).                  *)
(***************************************************************************)
\* the calls of check() whose answer is known
Answered == checks - Cardinality({p \in Procs : pc[p] \notin {"idle", "done"}})

\* C29: with the store reachable and the checks of Procs in flight at once,
\* no more than max_requests + N - 1 checks are answered ALLOWED within one
\* window, N the number of invocations.  While no check has found the window
\* full, none has failed and the identifier began unblocked, every answer
\* given is ALLOWED.
C29_AdmittedWithinBound ==
  (/\ faults = 0
   /\ over_quota = 0
   /\ first_at # None
   /\ clock < first_at + limiter.window_seconds)
    => Answered <= limiter.max_requests + Cardinality(Procs) - 1

\* C30: a block record in force is never replaced by one with an earlier
\* unblock time.
C30_BlockedUntilNeverDecreases ==
  [][(block # None /\ block > clock /\ block' # None) => block' >= block]_vars

(***************************************************************************)
(* The frame of a check that finds the identifier blocked.                 *)
(***************************************************************************)
\* C27: a check that returns BLOCKED because the block record it reads is in
\* force writes nothing: from its call to its return the window set, the
\* violation counter, the block record and their expiries stay as they are.
C27_BlockedCheckWritesNothing ==
  [][\A p \in Procs :
       (\/ pc[p] = "idle" /\ pc'[p] # "idle"
        \/ pc[p] = "get" /\ ret'[p].result = BLOCKED
        \/ /\ pc[p] = "done" /\ pc'[p] = "idle"
           /\ ret[p].result = BLOCKED /\ ret[p].violations = None)
         => /\ UNCHANGED <<zset, zset_ttl, violations, violations_ttl, block, block_ttl>>
            /\ (pc[p] = "get" => ret'[p].blocked_until = block /\ block > loc[p].now)]_vars

\* a check has returned BLOCKED from the block record while the window set
\* held entries that had left the window
C27_Witness ==
  \E p \in Procs :
    /\ pc[p] = "done" /\ ret[p].result = BLOCKED /\ ret[p].violations = None
    /\ faults = 0
    /\ \E e \in zset : e.score <= WindowStart(loc[p].now)

(***************************************************************************)
(* The store keys of check().  _get_key (lines 99-104) makes the window    *)
(* key of an identifier from the limiter's prefix; the block key (line     *)
(* 134) and the violation key (line 177) are the window key with a suffix. *)
(***************************************************************************)
\* the limiter's own variables
check_vars == <<clock, redis_client, limiter, zset, zset_ttl, violations, violations_ttl,
                block, block_ttl, pc, loc, ret, first_at, over_quota, inserted,
                checks, ticks, faults, init_violations, rested>>

\* the limiter as Begin leaves it, no check() called
AtRest == Begin({0}) /\ limiter.fail_closed

\* the three keys check() addresses for an identifier, by the limiter of a tier
KeysOf(config_name, identifier) ==
  LET key == get_key(RateLimitConfig[config_name].prefix, identifier)
      Rec(k, part) == [key |-> k, config_name |-> config_name,
                       identifier |-> identifier, part |-> part]
  IN {Rec(key, "window"), Rec(BlockKey(key), "blocked"),
      Rec(ViolationKey(key), "violations")}

\* check(identifier) of the limiter of a tier addresses its keys
CheckKeys(config_name, identifier) ==
  /\ KeysOf(config_name, identifier) \cap store_keys = {}
  /\ store_keys' = store_keys \cup KeysOf(config_name, identifier)
  /\ UNCHANGED <<check_vars, registry_vars, embed_vars, monitor_vars>>

InitKeys == AtRest /\ Quiet

NextKeys == \E config_name \in KeyTiers, identifier \in Identifiers :
               CheckKeys(config_name, identifier)

\* SpecKeys: limiters of the tiers are called with identifiers, in any order
SpecKeys == InitKeys /\ [][NextKeys]_vars

\* C11: distinct (tier, identifier) pairs never share a store key: a key that
\* check() addresses for one pair (window, ':blocked' or ':violations') is
\* addressed for no other pair.
C11_KeysScopedToPair ==
  \A a, b \in store_keys :
     a.key = b.key => a.config_name = b.config_name /\ a.identifier = b.identifier

\* identifiers of 64 characters and more that agree in their first 64
LongIdentifiers == {Identifier64, LongIdentifier, LongIdentifierV, LongIdentifierVW}

NextLongKeys == \E config_name \in KeyTiers, identifier \in LongIdentifiers :
                   CheckKeys(config_name, identifier)

\* SpecLongKeys: limiters of the tiers are called with long identifiers
SpecLongKeys == InitKeys /\ [][NextLongKeys]_vars

\* the length of the digest that stands for a long identifier
DigestLen == 16

TierNames == DOMAIN RateLimitConfig

\* getattr(RateLimitConfig, config_name, None), line 246: the kind of object
\* the class has under the name.  The class is a dataclass with a docstring
\* (lines 27-29): it has its tiers, the attributes every class has and the
\* ones @dataclass adds; "None" is the default for a name it has not.
GetAttr(config_name) ==
  CASE config_name \in TierNames -> "dict"
    [] config_name = "__doc__" -> "str"
    [] config_name = "__init__" -> "function"
    [] config_name = "__dict__" -> "mappingproxy"
    [] config_name = "__class__" -> "type"
    [] OTHER -> "None"

\* config["max_requests"], line 251, on an object of a kind: the exception it
\* raises, "" when it gives a value (type["max_requests"] is a generic alias)
Subscript(kind) ==
  CASE kind \in {"str", "function"} -> "TypeError"
    [] kind = "mappingproxy" -> "KeyError"
    [] OTHER -> ""

\* the RateLimiter of lines 250-255 from a config object, as the id-th object
Construct(id, config_name, fail_closed) ==
  IF GetAttr(config_name) = "dict"
  THEN [id |-> id] @@ RateLimiter(config_name, fail_closed)
  ELSE [id |-> id, max_requests |-> "type['max_requests']",
        window_seconds |-> "type['window_seconds']", prefix |-> "type['prefix']",
        fail_closed |-> fail_closed]

UnknownConfig == "ValueError: Unknown rate limit config"

\* what get_rate_limiter does to the cache and how it ends
Lookup(cache, n, config_name, fail_closed) ==
  LET cache_key == CacheKey(config_name, fail_closed)
      call == [NoGot EXCEPT !.config_name = config_name, !.fail_closed = fail_closed]
  IN IF cache[cache_key] # NoLimiter
     THEN [cache |-> cache, built |-> n,
           got |-> [call EXCEPT !.id = cache[cache_key].id, !.hit = TRUE]]
     ELSE IF GetAttr(config_name) = "None"
     THEN [cache |-> cache, built |-> n, got |-> [call EXCEPT !.raised = UnknownConfig]]
     ELSE IF Subscript(GetAttr(config_name)) # ""
     THEN [cache |-> cache, built |-> n,
           got |-> [call EXCEPT !.raised = Subscript(GetAttr(config_name))]]
     ELSE [cache |-> [cache EXCEPT ![cache_key] = Construct(n + 1, config_name, fail_closed)],
           built |-> n + 1,
           got |-> [call EXCEPT !.id = n + 1]]

get_rate_limiter(config_name, fail_closed) ==
  LET r == Lookup(rate_limiters, built, config_name, fail_closed) IN
  /\ rate_limiters' = r.cache
  /\ built' = r.built
  /\ got' = r.got
  /\ returned' = IF r.got.raised = ""
                 THEN returned \cup {[config_name |-> config_name,
                                      fail_closed |-> fail_closed, id |-> r.got.id]}
                 ELSE returned
  /\ UNCHANGED <<check_vars, keys_vars, embed_vars, monitor_vars>>

InitRegistry == AtRest /\ Quiet

NextRegistry == \E config_name \in ConfigNames, fail_closed \in BOOLEAN :
                   get_rate_limiter(config_name, fail_closed)

\* SpecRegistry: get_rate_limiter is called with names and flags, in any order
SpecRegistry == InitRegistry /\ [][NextRegistry]_vars

\* C14: a call of get_rate_limiter with a name that is not a configured tier
\* fails with the 'Unknown rate limit config' ValueError and leaves the cache
\* as it was.
C14_UnknownNameRaisesValueError ==
  [][(got' # NoGot /\ got'.config_name \notin TierNames)
       => (got'.raised = UnknownConfig /\ rate_limiters' = rate_limiters)]_vars

\* C15: every call with one (tier, fail_closed) pair has returned the same
\* instance, calls with different pairs have returned different instances, and
\* the instance cached for a pair carries the tier's max_requests,
\* window_seconds and prefix and the pair's fail_closed.
C15_OneLimiterPerPair ==
  /\ \A a, b \in returned :
        (a.config_name \in TierNames /\ b.config_name \in TierNames)
          => ((a.id = b.id) <=>
              (a.config_name = b.config_name /\ a.fail_closed = b.fail_closed))
  /\ \A a \in returned :
        a.config_name \in TierNames =>
          LET inst == rate_limiters[CacheKey(a.config_name, a.fail_closed)] IN
          /\ inst.id = a.id
          /\ inst.max_requests = RateLimitConfig[a.config_name].max_requests
          /\ inst.window_seconds = RateLimitConfig[a.config_name].window_seconds
          /\ inst.prefix = RateLimitConfig[a.config_name].prefix
          /\ inst.fail_closed = a.fail_closed

\* a repeated call has returned the cached instance of a tier whose other flag
\* has an instance too
C15_Witness ==
  /\ got.hit
  /\ got.config_name \in TierNames
  /\ \E a, b \in returned :
        /\ a.config_name = got.config_name /\ b.config_name = got.config_name
        /\ a.fail_closed /\ ~b.fail_closed

(***************************************************************************)
(* check_rate_limit_strict (lines 260-282) and check_embedding_rate_limit  *)
(* (lines 296-320).  A check() is one step here: its store calls run       *)
(* without another invocation between them, and at most one of them        *)
(* raises.  The calls of a behaviour fall in one clock second.             *)
(***************************************************************************)
\* check_embedding_rate_limit calls in one behaviour
MaxEmbedCalls == 3

\* the store call of a check() that raises, "none" when none does; "client" is
\* _get_redis() returning None
FailSites == {"none", "client", "get", "zremrangebyscore", "zcard", "incr",
              "expire_violations", "setex", "zadd", "expire"}

\* the limiter's variables but the count of store calls that raised
unfailing_vars == <<clock, redis_client, limiter, zset, zset_ttl, violations,
                    violations_ttl, block, block_ttl, pc, loc, ret, first_at,
                    over_quota, inserted, checks, ticks, init_violations, rested>>

\* redis.zcard(key) of a window whose entries are all inside the window
Count(st) == st.older + Cardinality(st.at_now)

\* the fail-closed / fail-open answer of lines 120-130, 164-170 and 216-225 of
\* the limiter lim
UnavailableOf(lim, t) ==
  IF lim.fail_closed
  THEN [NoRet EXCEPT !.result = RATE_LIMITED, !.remaining = 0,
                     !.reset_at = t + lim.window_seconds, !.error = TRUE]
  ELSE [NoRet EXCEPT !.result = ALLOWED, !.remaining = lim.max_requests,
                     !.reset_at = t + lim.window_seconds]

\* the answer of lines 197-200 of the limiter lim
RateLimitedOf(lim, now) ==
  [NoRet EXCEPT !.result = RATE_LIMITED, !.remaining = 0,
                !.reset_at = now + lim.window_seconds]

\* the answer of lines 209-212 of the limiter lim
AllowedOf(lim, now, count) ==
  [NoRet EXCEPT !.result = ALLOWED,
                !.remaining = Max(0, lim.max_requests - count) - 1,
                !.reset_at = now + lim.window_seconds]

\* lim.check(identifier), lines 106-225, on the keys st of the identifier at
\* time now, the store call `fail` raising if check() gets to it: the keys
\* afterwards, what check() returns and whether the call did raise
CheckOnce(lim, st, now, fail) ==
  LET count == Count(st)
      v == RedisIncr(st.violations)
      until == now + BlockDuration(v)
  IN
  IF fail = "client" \/ Handler(fail) = "outer"
  THEN [st |-> st, ret |-> UnavailableOf(lim, now), raised |-> TRUE]
  ELSE IF IsBlocked(st.block, now)
  THEN [st |-> st, ret |-> Blocked(st.block, None), raised |-> FALSE]
  ELSE IF Handler(fail) = "count"
  THEN [st |-> st, ret |-> UnavailableOf(lim, now), raised |-> TRUE]
  ELSE IF count >= lim.max_requests
  THEN IF fail = "incr"
       THEN [st |-> st, ret |-> RateLimitedOf(lim, now), raised |-> TRUE]
       ELSE IF fail = "expire_violations"
       THEN [st |-> [st EXCEPT !.violations = v], ret |-> RateLimitedOf(lim, now),
             raised |-> TRUE]
       ELSE IF ~IsRepeatOffender(v)
       THEN [st |-> [st EXCEPT !.violations = v], ret |-> RateLimitedOf(lim, now),
             raised |-> FALSE]
       ELSE IF fail = "setex"
       THEN [st |-> [st EXCEPT !.violations = v], ret |-> RateLimitedOf(lim, now),
             raised |-> TRUE]
       ELSE [st |-> [st EXCEPT !.violations = v, !.block = until],
             ret |-> Blocked(until, v), raised |-> FALSE]
  ELSE IF fail = "zadd"
  THEN [st |-> st, ret |-> AllowedOf(lim, now, count), raised |-> TRUE]
  ELSE [st |-> [st EXCEPT !.at_now = @ \cup {lim.id}],
        ret |-> AllowedOf(lim, now, count), raised |-> fail = "expire"]

\* result.value, lines 20-24
EnumValue(result) ==
  CASE result = ALLOWED -> "allowed"
    [] result = RATE_LIMITED -> "rate_limited"
    [] result = BLOCKED -> "blocked"

\* mutant: only a block counts as a denial
StrictUnlessBlocked(r) ==
  [is_allowed |-> r.result # BLOCKED,
   metadata |-> [r EXCEPT !.result = EnumValue(r.result)]]

\* lines 279-282 of check_rate_limit_strict on what check() returned: the
\* metadata of check() with the result tag put in
Strict(r) ==
  [is_allowed |-> r.result = ALLOWED,
   metadata |-> [r EXCEPT !.result = EnumValue(r.result)]]

BlockedMessage == "Too many requests. You are temporarily blocked."
LimitMessage == "Embedding rate limit exceeded. Try again in N seconds."
DailyMessage == "Daily embedding quota exceeded. Try again tomorrow."

\* mutant: the daily tier is keyed like the per-minute tier
DailyIdentifierCombined(ip, user_id) == get_combined_identifier(ip, user_id)

\* the identifier of the daily check, line 316
DailyIdentifier(ip, user_id) == user_id

\* mutant: the daily tier is checked whatever the per-minute check answered
ConsultsDailyAlways(is_allowed, user_id) == user_id # ""

\* lines 307 and 315: the daily tier is checked when the per-minute check
\* admitted the call and user_id is given
ConsultsDaily(is_allowed, user_id) == is_allowed /\ user_id # ""

\* check_embedding_rate_limit(ip, user_id); fail1 and fail2 are the store calls
\* that raise in the per-minute and in the daily check
check_embedding_rate_limit(ip, user_id, fail1, fail2) ==
  LET identifier == get_combined_identifier(ip, user_id)
      g1 == Lookup(rate_limiters, built, "EMBEDDING", TRUE)
      lim1 == g1.cache[CacheKey("EMBEDDING", TRUE)]
      k1 == WindowKey("EMBEDDING", identifier)
      c1 == CheckOnce(lim1, store[k1], clock, fail1)
      s1 == Strict(c1.ret)
      store1 == [store EXCEPT ![k1] = c1.st]
      daily == ConsultsDaily(s1.is_allowed, user_id)
      g2 == Lookup(g1.cache, g1.built, "EMBEDDING_DAILY", TRUE)
      lim2 == g2.cache[CacheKey("EMBEDDING_DAILY", TRUE)]
      k2 == WindowKey("EMBEDDING_DAILY", DailyIdentifier(ip, user_id))
      c2 == CheckOnce(lim2, store1[k2], clock, fail2)
      s2 == Strict(c2.ret)
      Call(config_name, id, c, s) ==
        [config_name |-> config_name, identifier |-> id, check |-> c.ret,
         is_allowed |-> s.is_allowed, metadata |-> s.metadata]
      call1 == Call("EMBEDDING", identifier, c1, s1)
      call2 == Call("EMBEDDING_DAILY", DailyIdentifier(ip, user_id), c2, s2)
      seen == [NoEmb EXCEPT !.ip = ip, !.user_id = user_id, !.fail = <<fail1, fail2>>,
                 !.minute_count = Count(store[k1]),
                 !.minute_blocked = IsBlocked(store[k1].block, clock),
                 !.daily_count = IF user_id # ""
                                 THEN Count(store[WindowKey("EMBEDDING_DAILY", user_id)])
                                 ELSE None]
      Ret(r) == [id |-> r.got.id, config_name |-> r.got.config_name,
                 fail_closed |-> r.got.fail_closed]
  IN
  /\ emb_calls < MaxEmbedCalls
  /\ emb_calls' = emb_calls + 1
  /\ fail1 = "none" \/ fail2 = "none"
  /\ fail1 # "none" => c1.raised
  /\ fail2 # "none" => (daily /\ c2.raised)
  /\ IF fail1 = "none" /\ fail2 = "none"
     THEN UNCHANGED faults
     ELSE faults < MaxFaults /\ faults' = faults + 1
  /\ IF daily
     THEN /\ store' = [store1 EXCEPT ![k2] = c2.st]
          /\ rate_limiters' = g2.cache /\ built' = g2.built /\ got' = g2.got
          /\ returned' = returned \cup {Ret(g1), Ret(g2)}
          /\ emb' = IF ~s1.is_allowed \/ ~s2.is_allowed
                    THEN [seen EXCEPT !.consulted = <<call1, call2>>,
                                      !.message = DailyMessage]
                    ELSE [seen EXCEPT !.consulted = <<call1, call2>>, !.allowed = TRUE]
     ELSE /\ store' = store1
          /\ rate_limiters' = g1.cache /\ built' = g1.built /\ got' = g1.got
          /\ returned' = returned \cup {Ret(g1)}
          /\ emb' = IF s1.is_allowed
                    THEN [seen EXCEPT !.consulted = <<call1>>, !.allowed = TRUE]
                    ELSE IF s1.metadata.result = "blocked"
                    THEN [seen EXCEPT !.consulted = <<call1>>, !.message = BlockedMessage]
                    ELSE [seen EXCEPT !.consulted = <<call1>>, !.message = LimitMessage,
                                      !.seconds = s1.metadata.reset_at - clock]
  /\ UNCHANGED <<unfailing_vars, keys_vars, monitor_vars>>

\* the keys earlier calls can have left for a pair of a tier with max entries:
\* a window that is empty, one short of full or full, with a violation counter
\* below the threshold of line 182; or a block that is still on after the
\* window has emptied
Left(max) ==
  {[NoEntries EXCEPT !.older = o, !.violations = v] : o \in {0, max - 1, max}, v \in {0, 2}}
    \cup {[NoEntries EXCEPT !.violations = BlockThreshold, !.block = StartTime + 30]}

\* the store when the first modelled call is made: earlier calls have left
\* keys for the user "u1" at "5.5.5.5"
InitEmbed ==
  /\ AtRest
  /\ store_keys = {}
  /\ RegistryEmpty
  /\ EmbedIdle
  /\ MonitorIdle
  /\ \E m \in Left(RateLimitConfig["EMBEDDING"].max_requests),
        d \in Left(RateLimitConfig["EMBEDDING_DAILY"].max_requests) :
       store = [k \in EmbedKeys |->
                  IF k = WindowKey("EMBEDDING", "5.5.5.5:u1") THEN m
                  ELSE IF k = WindowKey("EMBEDDING_DAILY", "u1") THEN d
                  ELSE NoEntries]

NextEmbed == \E ip \in Ips, user_id \in UserIds, fail1 \in FailSites, fail2 \in FailSites :
                check_embedding_rate_limit(ip, user_id, fail1, fail2)

\* SpecEmbed: check_embedding_rate_limit is called for IPs and users, one call
\* at a time
SpecEmbed == InitEmbed /\ [][NextEmbed]_vars

\* the store calls whose failure makes check() deny on a fail-closed limiter
DenyingSites == {"client", "get", "zremrangebyscore", "zcard"}

C13_DailyTierFrame ==
  [][emb_calls' = emb_calls + 1 =>
       /\ \A i \in DOMAIN emb'.consulted :
             emb'.consulted[i].config_name = "EMBEDDING_DAILY" =>
               /\ i = 2
               /\ emb'.consulted[1].config_name = "EMBEDDING"
               /\ emb'.consulted[1].is_allowed
               /\ emb'.user_id # ""
               /\ emb'.consulted[i].identifier = emb'.user_id
       /\ \A k \in DailyKeys :
             store'[k] # store[k] =>
               /\ k = WindowKey("EMBEDDING_DAILY", emb'.user_id)
               /\ emb'.user_id # ""
               /\ emb'.consulted[1].is_allowed]_vars

\* u1 has been admitted at 5.5.5.5 and at 6.6.6.6, and the call at 6.6.6.6
\* is denied by the daily window the call at 5.5.5.5 filled
C13_Witness ==
  /\ emb.ip = "6.6.6.6" /\ emb.user_id = "u1"
  /\ Len(emb.consulted) = 2
  /\ emb.consulted[2].identifier = "u1"
  /\ store[WindowKey("EMBEDDING", "5.5.5.5:u1")].at_now # {}
  /\ store[WindowKey("EMBEDDING", "6.6.6.6:u1")].at_now # {}
  /\ store[WindowKey("EMBEDDING_DAILY", "u1")].at_now # {}
  /\ emb.message = DailyMessage

\* C16: check_rate_limit_strict answers is_allowed exactly when check()
\* returned ALLOWED, and its metadata has under 'result' the tag of what
\* check() returned and under every other name what check() put there.
C16_StrictNormalisesResult ==
  \A i \in DOMAIN emb.consulted :
     LET c == emb.consulted[i] IN
     /\ c.is_allowed <=> (c.check.result = ALLOWED)
     /\ \/ c.check.result = ALLOWED /\ c.metadata.result = "allowed"
        \/ c.check.result = RATE_LIMITED /\ c.metadata.result = "rate_limited"
        \/ c.check.result = BLOCKED /\ c.metadata.result = "blocked"
     /\ \A f \in DOMAIN c.check \ {"result"} : c.metadata[f] = c.check[f]

\* a per-minute check that admitted and a daily check that answered
\* RATE_LIMITED or BLOCKED have gone through check_rate_limit_strict
C16_Witness ==
  /\ Len(emb.consulted) = 2
  /\ emb.consulted[1].is_allowed /\ emb.consulted[1].metadata.result = "allowed"
  /\ ~emb.consulted[2].is_allowed
  /\ emb.consulted[2].metadata.result \in {"rate_limited", "blocked"}

(***************************************************************************)
(* The security monitor (src/api/security/monitoring.py): log_event        *)
(* (lines 111-147) persists an event, _check_alert_conditions (lines       *)
(* 149-202) counts it against the alert rule of its type and IP, and       *)
(* _trigger_alert (lines 204-230) writes an alert.  A log_event is one     *)
(* step; the clock and the expiry of the counters run between the steps.   *)
(***************************************************************************)
\* log_event calls in one behaviour
MaxEvents == 11
\* advances of the clock between log_event calls in one behaviour
MaxMonTicks == 2
\* events in one behaviour beside those of the rule and IP with the most events
MaxStray == 1
\* log_event calls in a behaviour in which a store call raises
MaxFaultEvents == 5
\* log_event calls of a behaviour among which the clock advances
MaxTickEvents == 3

\* the threshold of the rule of an event type, lines 167, 181, 195
Threshold(event_type) ==
  CASE event_type = RATE_LIMIT_HIT -> RATE_LIMIT_ALERT_THRESHOLD
    [] event_type = AUTH_FAILURE -> AUTH_FAILURE_ALERT_THRESHOLD
    [] event_type = WEBHOOK_INVALID -> WEBHOOK_ALERT_THRESHOLD

\* the message of the alert of a rule, lines 169, 183, 197
AlertMessage(event_type, ip) ==
  CASE event_type = RATE_LIMIT_HIT -> "Rate limit abuse detected from IP " \o ip
    [] event_type = AUTH_FAILURE -> "Possible brute force attack from IP " \o ip
    [] event_type = WEBHOOK_INVALID -> "Invalid webhook attempts from IP " \o ip

\* the store calls of a log_event, in the order it makes them; "client" is
\* the construction of the client in _get_redis
MonSites == {"none", "client", "zadd", "zremrangebyrank", "expire", "incr",
             "expire_counter", "lpush", "ltrim"}

\* mutant: _get_redis lets the failure of the construction out
MonHandlerClientUncaught(site) ==
  CASE site \in {"zadd", "zremrangebyrank", "expire"} -> "log_event"
    [] site \in {"incr", "expire_counter"} -> "_check_alert_conditions"
    [] site \in {"lpush", "ltrim"} -> "_trigger_alert"
    [] OTHER -> "none"

\* the innermost except clause around each store call: lines 105-107 for
\* the client, 146-147, 201-202 and 229-230 for the calls
MonHandler(site) ==
  CASE site = "client" -> "_get_redis"
    [] site \in {"zadd", "zremrangebyrank", "expire"} -> "log_event"
    [] site \in {"incr", "expire_counter"} -> "_check_alert_conditions"
    [] site \in {"lpush", "ltrim"} -> "_trigger_alert"
    [] OTHER -> "none"

\* where the text of an IP stands among the texts of the model's IPs: the
\* member of an event is json.dumps of its fields (lines 67-78), and the
\* members of one type and one timestamp differ first in "ip_address"
IpRank(ip) ==
  CASE ip = "" -> 0
    [] ip = "1.2.3.4" -> 1
    [] ip = "5.6.7.8" -> 2

\* the sorted set's order: by score (the timestamp, line 135), members of one
\* score by their text
MemberBefore(a, b) ==
  \/ a.timestamp < b.timestamp
  \/ a.timestamp = b.timestamp /\ IpRank(a.ip_address) < IpRank(b.ip_address)

\* mutant: the trim keeps the first 1000 of the order and drops the rest
TrimEventsFromTop(older, z) ==
  LET excess == older + Cardinality(z) - EventLogCap IN
  IF excess <= 0 THEN [older |-> older, recent |-> z]
  ELSE [older |-> older,
        recent |-> {e \in z : Cardinality({f \in z : MemberBefore(e, f)}) >= excess}]

\* redis.zremrangebyrank(key, 0, -1001) on the sorted set of a type, `older`
\* entries below the entries z: the ranks from 0 to size - 1001 go, which
\* leaves the 1000 entries that stand last in the order
TrimEvents(older, z) ==
  LET excess == older + Cardinality(z) - EventLogCap IN
  IF excess <= 0 THEN [older |-> older, recent |-> z]
  ELSE IF excess <= older THEN [older |-> older - excess, recent |-> z]
  ELSE [older |-> 0,
        recent |-> {e \in z : Cardinality({f \in z : MemberBefore(f, e)})
                                 >= excess - older}]

\* mutant: the trim keeps one alert more
TrimAlertsLate(older, l) ==
  [older |-> Max(0, Min(older, AlertListCap + 1 - Len(l))),
   recent |-> IF Len(l) <= AlertListCap + 1 THEN l ELSE SubSeq(l, 1, AlertListCap + 1)]

\* redis.ltrim("security_alerts", 0, 99) on the list l followed by `older`
\* alerts: the first 100 stay
TrimAlerts(older, l) ==
  [older |-> Max(0, Min(older, AlertListCap - Len(l))),
   recent |-> IF Len(l) <= AlertListCap THEN l ELSE SubSeq(l, 1, AlertListCap)]

\* mutant: the counter is compared with the threshold for equality
CrossesOnce(event_type, count) == count = Threshold(event_type)

\* if count and int(count) >= threshold, lines 167, 181, 195
Crosses(event_type, count) == count # 0 /\ count >= Threshold(event_type)

\* mutant: every rule counts under the key of the IP alone
CountedKeysPerIp(event_type, ip_address) ==
  IF event_type \in Rules /\ ip_address # ""
  THEN {AlertKey(t, ip_address) : t \in Rules} ELSE {}

\* the counter keys _check_alert_conditions increments for an event: the key of
\* the rule of its type and its IP, none for another type or without an IP
CountedKeys(event_type, ip_address) ==
  IF event_type \in Rules /\ ip_address # ""
  THEN {AlertKey(event_type, ip_address)} ELSE {}

\* redis.expire(key, 300) on a counter, lines 165, 179, 193
ExpireCounter(c, now) == now + SUSPICIOUS_PATTERN_WINDOW

\* mutant: the trim and the expiry of the log are tried apart from the append
\* and the alert rules
ChecksAlertsOnceAppended(fail) == fail \notin {"client", "zadd"}

\* whether log_event comes to self._check_alert_conditions(event), line 144:
\* the call is the last of the try that holds the append, the trim and the
\* expiry, inside `if redis:`
ChecksAlerts(fail) == fail \notin {"client", "zadd", "zremrangebyrank", "expire"}

\* the tag of the console line, lines 119-124: dict.get with the default
LogLevel(severity) ==
  CASE severity = "info" -> "INFO"
    [] severity = "warning" -> "WARN"
    [] severity = "error" -> "ERROR"
    [] severity = "critical" -> "CRIT"
    [] OTHER -> "INFO"

\* what json.dumps raises for a value it has no encoding for
TypeError == "TypeError: Object of type set is not JSON serializable"

\* the details maps of the model's events, as Python writes them: the default
\* of log_security_event (line 316), a map of strings, and a map with a set
DetailsValues == {"{}", "{'method': 'google'}", "{'paths': {'/a', '/b'}}"}

\* json.dumps(event.details), line 126
JsonDumps(details) ==
  CASE details = "{}" -> "{}"
    [] details = "{'method': 'google'}" -> "{\"method\": \"google\"}"
    [] OTHER -> TypeError

\* the console line of line 126
ConsoleLine(severity, event_type, details) ==
  "[SECURITY " \o LogLevel(severity) \o "] " \o event_type \o ": " \o JsonDumps(details)

\* log_security_event(event_type, ip_address, None, details, severity), lines
\* 294-320: the event is made at the clock's time (line 313) and given to
\* log_event (lines 111-147); `fail` is the store call that raises, "none"
\* when none does.  The console line is the first statement that can raise
\* and stands outside the try.  One log_event of a behaviour has a store call
\* that raises.
log_security_event(event_type, ip_address, details, severity, fail) ==
  LET event == [event_type |-> event_type, timestamp |-> clock, ip_address |-> ip_address]
      keys == CountedKeys(event_type, ip_address)
      key == AlertKey(event_type, ip_address)
      persisted == fail \notin {"client", "zadd"}
      checked == ChecksAlerts(fail)
      incremented == checked /\ keys # {} /\ fail # "incr"
      count == RedisIncr(alert_counters[key].count)
      refreshed == incremented /\ fail # "expire_counter"
      triggers == refreshed /\ Crosses(event_type, count)
      alert == [message |-> AlertMessage(event_type, ip_address),
                ip |-> ip_address, count |-> count, timestamp |-> clock]
      logged == [k \in AlertKeys |->
                   IF k \in keys THEN Append(times[k], clock) ELSE times[k]]
      trimmed == TrimEvents(log_older[event_type],
                            {e \in event_log : e.event_type = event_type} \cup {event})
      kept == TrimAlerts(alerts_older, <<alert>> \o alerts)
  IN
  IF JsonDumps(details) = TypeError
  THEN /\ events < MaxEvents
       /\ events' = events + 1
       /\ fail = "none"
       /\ ev' = [event_type |-> event_type, ip_address |-> ip_address, fail |-> fail,
                 outcome |-> "raised", console |-> ""]
       /\ UNCHANGED <<unfailing_vars, faults, keys_vars, registry_vars, embed_vars,
                      mon_client, event_log, log_older, log_ttl, alert_counters, alerts,
                      alerts_older, times, lapsed, mon_ticks, read, wpc, wloc>>
  ELSE
  /\ events < MaxEvents
  /\ events' = events + 1
  /\ (faults > 0 \/ fail # "none") => events < MaxFaultEvents
  /\ fail = "client" => mon_client = "None"
  /\ fail \in {"incr", "expire_counter"} => keys # {}
  /\ fail \in {"lpush", "ltrim"} => (keys # {} /\ Crosses(event_type, count))
  /\ keys # {} => alert_counters[key].count <= Threshold(event_type)
  /\ \/ events + 1 <= MaxStray
     \/ \E k \in AlertKeys :
           events + 1 - (Len(times[k]) + IF k \in keys THEN 1 ELSE 0) <= MaxStray
  /\ IF fail = "none" THEN UNCHANGED faults
     ELSE faults = 0 /\ faults' = 1
  /\ mon_client' = IF fail = "client" THEN "None" ELSE "client"
  /\ event_log' = IF ~persisted THEN event_log
                  ELSE IF fail = "zremrangebyrank" THEN event_log \cup {event}
                  ELSE {e \in event_log : e.event_type # event_type} \cup trimmed.recent
  /\ log_older' = IF ~persisted \/ fail = "zremrangebyrank" THEN log_older
                  ELSE [log_older EXCEPT ![event_type] = trimmed.older]
  /\ log_ttl' = IF checked THEN [log_ttl EXCEPT ![event_type] = clock + EventLogTTL]
                ELSE log_ttl
  /\ alert_counters' =
       [k \in AlertKeys |->
          IF incremented /\ k \in keys
          THEN [count |-> RedisIncr(alert_counters[k].count),
                ttl |-> IF refreshed THEN ExpireCounter(alert_counters[k], clock)
                        ELSE alert_counters[k].ttl]
          ELSE alert_counters[k]]
  /\ alerts' = IF ~triggers \/ fail = "lpush" THEN alerts
               ELSE IF fail = "ltrim" THEN <<alert>> \o alerts
               ELSE kept.recent
  /\ alerts_older' = IF ~triggers \/ fail \in {"lpush", "ltrim"} THEN alerts_older
                     ELSE kept.older
  /\ times' = logged
  /\ ev' = [event_type |-> event_type, ip_address |-> ip_address, fail |-> fail,
            outcome |-> IF fail = "none" \/ MonHandler(fail) # "none"
                        THEN "returned" ELSE "raised",
            console |-> ConsoleLine(severity, event_type, details)]
  /\ UNCHANGED <<unfailing_vars, keys_vars, registry_vars, embed_vars, lapsed, mon_ticks,
                 read, wpc, wloc>>

\* log_event(event) for an event with the default details and severity of
\* log_security_event (lines 298-299)
log_event(event_type, ip_address, fail) ==
  log_security_event(event_type, ip_address, "{}", "info", fail)

\* the seconds the clock may advance by between two log_event calls
MonJumps == {200}

\* the clock advances; the counters and the sorted sets whose expiry time has
\* passed are gone.  (The jumps keep the clock off the expiry times, so no
\* key is in the second in which it goes.)
MonTick(d) ==
  /\ mon_ticks < MaxMonTicks
  /\ 0 < events /\ events < MaxTickEvents
  /\ mon_ticks' = mon_ticks + 1
  /\ clock' = clock + d
  /\ event_log' = {e \in event_log : ~Expired(log_ttl[e.event_type], clock')}
  /\ log_older' = [t \in EventTypes |->
                     IF Expired(log_ttl[t], clock') THEN 0 ELSE log_older[t]]
  /\ log_ttl' = [t \in EventTypes |->
                   IF Expired(log_ttl[t], clock') THEN None ELSE log_ttl[t]]
  /\ alert_counters' = [k \in AlertKeys |->
                          IF Expired(alert_counters[k].ttl, clock') THEN NoCounter
                          ELSE alert_counters[k]]
  /\ lapsed' = lapsed \cup {k \in AlertKeys : Expired(alert_counters[k].ttl, clock')}
  /\ UNCHANGED <<redis_client, limiter, zset, zset_ttl, violations, violations_ttl,
                 block, block_ttl, pc, loc, ret, first_at, over_quota, inserted,
                 checks, ticks, faults, init_violations, rested>>
  /\ UNCHANGED <<keys_vars, registry_vars, embed_vars, mon_client, alerts,
                 alerts_older, ev, times, events, read, wpc, wloc>>

InitMonitor == AtRest /\ Quiet

NextMonitor ==
  \/ \E e \in MonEvents, fail \in MonSites : log_event(e[1], e[2], fail)
  \/ \E d \in MonJumps : MonTick(d)

\* SpecMonitor: events are logged one at a time, the store empty at first
SpecMonitor == InitMonitor /\ [][NextMonitor]_vars

\* the step is a log_event of an event that has a rule and an IP
Counts(t, ip) == t \in Rules /\ ip # ""

\* C17: with no store call failing and no counter before, the n-th event of a
\* rule and an IP logged while the counter has not expired writes one alert
\* (for that IP, with count n) when n >= the rule's threshold and none when
\* n is below it.
C17_AlertFromThresholdOn ==
  [][(/\ events' = events + 1
      /\ Counts(ev'.event_type, ev'.ip_address)
      /\ faults' = 0
      /\ AlertKey(ev'.event_type, ev'.ip_address) \notin lapsed')
       => LET n == Len(times'[AlertKey(ev'.event_type, ev'.ip_address)]) IN
          IF n >= Threshold(ev'.event_type)
          THEN /\ Len(alerts') = Len(alerts) + 1
               /\ Tail(alerts') = alerts
               /\ Head(alerts').ip = ev'.ip_address
               /\ Head(alerts').count = n
               /\ Head(alerts').message = AlertMessage(ev'.event_type, ev'.ip_address)
          ELSE alerts' = alerts]_vars

\* ten RATE_LIMIT_HIT events of 1.2.3.4 wrote no alert, the tenth wrote one
\* and the eleventh another
C17_Witness ==
  /\ faults = 0 /\ lapsed = {}
  /\ Len(times[AlertKey(RATE_LIMIT_HIT, "1.2.3.4")]) = RATE_LIMIT_ALERT_THRESHOLD + 1
  /\ Len(alerts) = 2
  /\ alerts[1].count = RATE_LIMIT_ALERT_THRESHOLD + 1
  /\ alerts[2].count = RATE_LIMIT_ALERT_THRESHOLD

\* C18: with no store call failing, when an alert is written for a rule and an
\* IP, at least the rule's threshold of its events were logged in the 300
\* seconds up to that moment.
C18_AlertNeedsEventsInWindow ==
  [][(/\ events' = events + 1
      /\ faults' = 0
      /\ Len(alerts') > Len(alerts))
       => LET key == AlertKey(ev'.event_type, ev'.ip_address)
              recent == {i \in DOMAIN times'[key] :
                           times'[key][i] >= clock - SUSPICIOUS_PATTERN_WINDOW}
          IN Cardinality(recent) >= Threshold(ev'.event_type)]_vars

\* C19: a log_event changes no alert counter but the one of the event's own
\* rule and IP, which it increments by one; an event of a type without a
\* rule or without an IP changes no counter and writes no alert.
C19_OnlyOwnCounter ==
  [][events' = events + 1 =>
       /\ \A k \in AlertKeys :
             alert_counters'[k] # alert_counters[k] =>
               /\ Counts(ev'.event_type, ev'.ip_address)
               /\ k = AlertKey(ev'.event_type, ev'.ip_address)
               /\ alert_counters'[k].count = alert_counters[k].count + 1
       /\ ~Counts(ev'.event_type, ev'.ip_address) =>
             (alert_counters' = alert_counters /\ alerts' = alerts)]_vars

\* an event without a rule has been logged while a counter stood at its
\* threshold, and an event of a rule while another rule's counter stood
C19_Witness ==
  \/ /\ ev.event_type = AUTH_SUCCESS /\ ev.ip_address = "1.2.3.4"
     /\ alert_counters[AlertKey(WEBHOOK_INVALID, "1.2.3.4")].count = WEBHOOK_ALERT_THRESHOLD
     /\ Len(alerts) = 1
  \/ /\ ev.event_type = WEBHOOK_INVALID /\ ev.ip_address = "1.2.3.4"
     /\ alert_counters[AlertKey(WEBHOOK_INVALID, "1.2.3.4")].count = WEBHOOK_ALERT_THRESHOLD
     /\ alert_counters[AlertKey(AUTH_FAILURE, "1.2.3.4")].count = 1
     /\ Len(alerts) = 1

\* C20: log_event returns to its caller whichever store call raised.
C20_LogEventSwallowsStoreFailure ==
  ev # NoEv => ev.outcome = "returned"

\* log_event has returned after the write of the alert it was to write raised
C20_Witness ==
  /\ ev.fail = "lpush"
  /\ ev.outcome = "returned"
  /\ mon_client = "client"
  /\ alerts = <<>>

(***************************************************************************)
(* The monitor's store at its bounds and its read functions                *)
(* (monitoring.py lines 232-279): get_recent_events and get_alerts read    *)
(* what log_event has written.  SpecLog starts from a store that already   *)
(* holds events of one type and alerts, up to the bounds of lines 138 and  *)
(* 228.                                                                    *)
(***************************************************************************)
\* log_event calls in one behaviour of SpecLog
MaxLogEvents == 4

\* the members of SecurityEventType in the order of their definition (lines
\* 25, 26, 32, 42), the order `for et in SecurityEventType` visits them in
TypeOrder == <<AUTH_SUCCESS, AUTH_FAILURE, RATE_LIMIT_HIT, WEBHOOK_INVALID>>

\* redis.zrevrange(key, 0, 20) at line 251: the last index of the range
PerTypeStop == 20

\* the sorted set of a type: the entries logged since Init
TypeLog(t) == {e \in event_log : e.event_type = t}

\* the entries of a sorted set from the last of its order to the first
RECURSIVE ZRevAll(_)
ZRevAll(z) ==
  IF z = {} THEN <<>>
  ELSE LET last == CHOOSE e \in z : \A f \in z \ {e} : MemberBefore(f, e)
       IN <<last>> \o ZRevAll(z \ {last})

\* how many of n elements the range of indexes 0..stop holds; a negative
\* stop counts from the end, -1 being the last element
Upto(stop, n) == IF stop < 0 THEN Max(0, n + stop + 1) ELSE Min(n, stop + 1)

\* redis.zrevrange(key, 0, stop) on the sorted set of `older` entries below
\* the entries z: the entries returned and how many of the older ones follow
ZRevRange(older, z, stop) ==
  LET all == ZRevAll(z)
      k == Upto(stop, older + Len(all))
  IN [events |-> SubSeq(all, 1, Min(k, Len(all))), older |-> Max(0, k - Len(all))]

\* redis.lrange("security_alerts", 0, stop) on the list l followed by
\* `older` alerts
LRange(older, l, stop) ==
  LET k == Upto(stop, older + Len(l))
  IN [alerts |-> SubSeq(l, 1, Min(k, Len(l))), tail |-> Max(0, k - Len(l))]

\* x put into the list s, which is in descending order of timestamp, behind
\* the elements that are not below it
InsertDesc(x, s) ==
  LET k == Cardinality({i \in DOMAIN s : s[i].timestamp >= x.timestamp})
  IN SubSeq(s, 1, k) \o <<x>> \o SubSeq(s, k + 1, Len(s))

\* parsed.sort(key=lambda x: x.get("timestamp", 0), reverse=True), line 262:
\* a stable sort, elements of one timestamp keep their order
RECURSIVE SortDesc(_)
SortDesc(s) ==
  IF s = <<>> THEN <<>>
  ELSE InsertDesc(s[Len(s)], SortDesc(SubSeq(s, 1, Len(s) - 1)))

\* the concatenation of the lists f[TypeOrder[1]], ..., f[TypeOrder[n]]
RECURSIVE Extend(_, _)
Extend(f, n) == IF n = 0 THEN <<>> ELSE Extend(f, n - 1) \o f[TypeOrder[n]]

\* of `room` places, the ones the older entries of the types take, the types
\* in the order of TypeOrder; f[t] older entries of type t are there
RECURSIVE Fill(_, _, _)
Fill(f, room, n) ==
  IF n = 0 THEN [t \in EventTypes |-> 0]
  ELSE LET before == Fill(f, room, n - 1)
           used == before[TypeOrder[1]] + before[TypeOrder[2]]
                     + before[TypeOrder[3]] + before[TypeOrder[4]]
       IN [before EXCEPT ![TypeOrder[n]] = Min(f[TypeOrder[n]], room - used)]

\* the store calls of a read: the construction of the client and the range
ReadSites == {"none", "client", "range"}

\* the limits the reads are called with; the admin routes pass 100 and 50
\* (src/api/routes/admin.py lines 224, 237)
ReadLimits == {0, 2, 100}

\* a read returns an empty list when _get_redis() gives no client (lines
\* 239-240, 272-273) or the range raises (lines 265-267, 278-279)
ReadOf(call, event_type, limit, fail) ==
  [NoRead EXCEPT !.call = call, !.event_type = event_type, !.limit = limit,
                 !.fail = fail, !.outcome = "returned"]

\* what a read does beside computing its result: _get_redis() keeps the
\* client it builds; one store call of a behaviour raises
Reads(fail) ==
  /\ fail = "client" => mon_client = "None"
  /\ IF fail = "none" THEN UNCHANGED faults ELSE faults = 0 /\ faults' = 1
  /\ mon_client' = IF fail = "client" THEN "None" ELSE "client"
  /\ UNCHANGED <<unfailing_vars, keys_vars, registry_vars, embed_vars>>
  /\ UNCHANGED <<event_log, log_older, log_ttl, alert_counters, alerts, alerts_older,
                 ev, times, lapsed, events, mon_ticks, wpc, wloc>>

\* parsed[:limit], line 263: how many of n elements stay, for a limit >= 0
Cut(limit, n) == Min(limit, n)

\* get_recent_events(event_type, limit), lines 232-267; event_type "" is None
get_recent_events(event_type, limit, fail) ==
  LET ranges == [t \in EventTypes |->
                   IF event_type = "" THEN ZRevRange(log_older[t], TypeLog(t), PerTypeStop)
                   ELSE IF t = event_type
                        THEN ZRevRange(log_older[t], TypeLog(t), limit - 1)
                        ELSE [events |-> <<>>, older |-> 0]]
      parsed == SortDesc(Extend([t \in EventTypes |-> ranges[t].events], Len(TypeOrder)))
      kept == SubSeq(parsed, 1, Cut(limit, Len(parsed)))
      room == Cut(limit, Len(parsed) + ranges[TypeOrder[1]].older
                           + ranges[TypeOrder[2]].older + ranges[TypeOrder[3]].older
                           + ranges[TypeOrder[4]].older) - Len(kept)
  IN
  /\ Reads(fail)
  /\ read' = IF fail # "none" THEN ReadOf("get_recent_events", event_type, limit, fail)
             ELSE [ReadOf("get_recent_events", event_type, limit, fail) EXCEPT
                     !.events = kept,
                     !.older = Fill([t \in EventTypes |-> ranges[t].older], room,
                                    Len(TypeOrder)),
                     !.taken = [t \in EventTypes |->
                                  Len(ranges[t].events) + ranges[t].older]]

\* get_alerts(limit), lines 269-279
get_alerts(limit, fail) ==
  LET got_alerts == LRange(alerts_older, alerts, limit - 1) IN
  /\ Reads(fail)
  /\ read' = IF fail # "none" THEN ReadOf("get_alerts", "", limit, fail)
             ELSE [ReadOf("get_alerts", "", limit, fail) EXCEPT
                     !.alerts = got_alerts.alerts, !.tail = got_alerts.tail]

\* what the store holds at Init, as (events of type AUTH_FAILURE, alerts):
\* nothing, or events and alerts up to the bounds of the sorted set, of the
\* range of line 251 and of the list
Fills == {<<0, 0>>, <<PerTypeStop, AlertListCap - 1>>,
          <<EventLogCap - 1, AlertListCap>>, <<EventLogCap, 0>>}

\* the events logged in SpecLog: two that are equal but for their IP, and
\* one of the rule with the lowest threshold
LogEvents == {<<AUTH_FAILURE, "1.2.3.4">>, <<AUTH_FAILURE, "5.6.7.8">>,
              <<WEBHOOK_INVALID, "1.2.3.4">>}

\* the store calls that raise in SpecLog: those that bound the sorted set and
\* the list
LogSites == {"none", "zremrangebyrank", "expire", "ltrim"}

\* the types get_recent_events is called with in SpecLog, "" for none
ReadTypes == {"", AUTH_FAILURE, WEBHOOK_INVALID}

InitLog ==
  /\ AtRest
  /\ Calm
  /\ \E fill \in Fills :
        MonitorHolding([t \in EventTypes |-> IF t = AUTH_FAILURE THEN fill[1] ELSE 0],
                       fill[2])

\* SpecLog: events are logged one at a time and the sorted sets or the list
\* are read afterwards
NextLog ==
  \/ \E e \in LogEvents, fail \in LogSites :
        /\ read = NoRead
        /\ events < MaxLogEvents
        /\ log_event(e[1], e[2], fail)
  \/ \E d \in MonJumps : read = NoRead /\ MonTick(d)
  \/ \E t \in ReadTypes, limit \in ReadLimits, fail \in ReadSites :
        read = NoRead /\ get_recent_events(t, limit, fail)
  \/ \E limit \in ReadLimits, fail \in ReadSites :
        read = NoRead /\ get_alerts(limit, fail)

SpecLog == InitLog /\ [][NextLog]_vars

\* the number of entries in the sorted set of type t
LogSize(t) == log_older[t] + Cardinality(TypeLog(t))

\* C21: after a log_event whose store calls all complete, the sorted set of
\* the event's type holds at most 1000 entries, no entry has gone while one
\* with a lower timestamp stays (the entries logged before Init are the lowest),
\* and the key expires 7 days later.
C21_LogBoundedNewestKept ==
  [][(events' = events + 1 /\ ev'.fail = "none")
       => LET t == ev'.event_type
              event == [event_type |-> t, timestamp |-> clock,
                        ip_address |-> ev'.ip_address]
              before == {e \in event_log : e.event_type = t} \cup {event}
              after == {e \in event_log' : e.event_type = t}
          IN /\ log_older'[t] + Cardinality(after) <= EventLogCap
             /\ log_older'[t] + Cardinality(after)
                  = Min(EventLogCap, log_older[t] + Cardinality(before))
             /\ after \subseteq before
             /\ \A gone \in before \ after :
                   /\ log_older'[t] = 0
                   /\ \A e \in after : ~MemberBefore(e, gone)
             /\ log_ttl'[t] = clock + EventLogTTL]_vars

\* an event has been logged into a full sorted set: one of the entries logged
\* before Init has gone and the new one is there
C21_Witness ==
  /\ ev.fail = "none" /\ ev.event_type = AUTH_FAILURE
  /\ log_older[AUTH_FAILURE] = EventLogCap - 2
  /\ Cardinality(TypeLog(AUTH_FAILURE)) = 2
  /\ log_ttl[AUTH_FAILURE] = clock + EventLogTTL

\* C22 (as claimed): with no store call failing, the sorted sets, empty at
\* first and far from their bound, hold one entry for every event logged,
\* also when events are equal in type, timestamp and IP.
C22_EveryEventAddsAnEntry ==
  faults = 0 => Cardinality(event_log) = events

\* the events of type t in the result of the last get_recent_events
Contribution(t) ==
  Cardinality({i \in DOMAIN read.events : read.events[i].event_type = t}) + read.older[t]

\* C24 (as claimed): get_recent_events without a type takes at most 20
\* entries of each type's sorted set, and no type has more than 20 events in
\* the result.
C24_AtMostTwentyPerType ==
  (read.call = "get_recent_events" /\ read.event_type = "" /\ read.fail = "none")
    => \A t \in EventTypes : read.taken[t] <= 20 /\ Contribution(t) <= 20

\* the number of events, or of alerts, in the result of the last read
ReadCount ==
  Len(read.events) + read.older[TypeOrder[1]] + read.older[TypeOrder[2]]
    + read.older[TypeOrder[3]] + read.older[TypeOrder[4]] + Len(read.alerts) + read.tail

\* C25 (as claimed): a read with a limit >= 0 returns at most limit elements,
\* get_recent_events in descending order of timestamp and get_alerts the
\* head of the list, and a read returns the empty list when the client
\* cannot be built or the store call raises.
C25_ReadsRespectLimit ==
  read.call # "" =>
    /\ ReadCount <= read.limit
    /\ \A i, j \in DOMAIN read.events :
          i < j => read.events[i].timestamp >= read.events[j].timestamp
    /\ read.alerts = SubSeq(alerts, 1, Len(read.alerts))
    /\ read.tail > 0 => Len(read.alerts) = Len(alerts)
    /\ read.fail # "none" => ReadCount = 0

(***************************************************************************)
(* Concurrent log_event calls.  Every invocation of the API runs its own   *)
(* log_event against the one store, so the lpush and the ltrim of          *)
(* _trigger_alert (lines 227-228) of several invocations interleave.  The  *)
(* store calls before them (lines 135-141, 164-165, ...) write other keys  *)
(* than the list and are taken as one step.                                *)
(***************************************************************************)
\* log_event calls in one behaviour of SpecAlerts
MaxAlertEvents == 5

\* the events logged in SpecAlerts
AlertEvents == {<<WEBHOOK_INVALID, "1.2.3.4">>, <<AUTH_FAILURE, "5.6.7.8">>}

\* the variables the steps of a concurrent log_event leave alone
alert_env == <<unfailing_vars, keys_vars, registry_vars, embed_vars, ev, lapsed,
               mon_ticks, read>>

\* log_event of invocation w from its call to the test of the threshold
\* (lines 111-141 and 156-167): the event is in its sorted set and counted; the
\* invocation goes on to _trigger_alert if the count is at the threshold or
\* above and has returned if not
LogCounted(w, event_type, ip_address) ==
  LET event == [event_type |-> event_type, timestamp |-> clock, ip_address |-> ip_address]
      keys == CountedKeys(event_type, ip_address)
      key == AlertKey(event_type, ip_address)
      count == RedisIncr(alert_counters[key].count)
      trimmed == TrimEvents(log_older[event_type], TypeLog(event_type) \cup {event})
      triggers == keys # {} /\ Crosses(event_type, count)
  IN
  /\ wpc[w] = "idle"
  /\ events < MaxAlertEvents
  /\ events' = events + 1
  /\ mon_client' = "client"
  /\ event_log' = {e \in event_log : e.event_type # event_type} \cup trimmed.recent
  /\ log_older' = [log_older EXCEPT ![event_type] = trimmed.older]
  /\ log_ttl' = [log_ttl EXCEPT ![event_type] = clock + EventLogTTL]
  /\ alert_counters' =
       [k \in AlertKeys |->
          IF k \in keys
          THEN [count |-> RedisIncr(alert_counters[k].count),
                ttl |-> ExpireCounter(alert_counters[k], clock)]
          ELSE alert_counters[k]]
  /\ times' = [k \in AlertKeys |->
                 IF k \in keys THEN Append(times[k], clock) ELSE times[k]]
  /\ IF triggers
     THEN /\ wpc' = [wpc EXCEPT ![w] = "lpush"]
          /\ wloc' = [wloc EXCEPT ![w] =
                        [event_type |-> event_type, ip_address |-> ip_address,
                         alert |-> [message |-> AlertMessage(event_type, ip_address),
                                    ip |-> ip_address, count |-> count,
                                    timestamp |-> clock]]]
     ELSE UNCHANGED <<wpc, wloc>>
  /\ UNCHANGED <<alerts, alerts_older, faults>>
  /\ UNCHANGED alert_env

\* a store call of _trigger_alert raises: the except of lines 229-230 passes
\* and log_event returns
AlertRaises(w) ==
  /\ faults < MaxFaults
  /\ faults' = faults + 1
  /\ wpc' = [wpc EXCEPT ![w] = "idle"]
  /\ wloc' = [wloc EXCEPT ![w] = NoWloc]
  /\ UNCHANGED <<alerts, alerts_older>>

\* redis.lpush("security_alerts", json.dumps(alert)), line 227
LPush(w) ==
  /\ wpc[w] = "lpush"
  /\ \/ /\ alerts' = <<wloc[w].alert>> \o alerts
        /\ wpc' = [wpc EXCEPT ![w] = "ltrim"]
        /\ UNCHANGED <<alerts_older, wloc, faults>>
     \/ AlertRaises(w)
  /\ UNCHANGED <<mon_client, event_log, log_older, log_ttl, alert_counters, times, events>>
  /\ UNCHANGED alert_env

\* redis.ltrim("security_alerts", 0, 99), line 228, and the return
LTrim(w) ==
  /\ wpc[w] = "ltrim"
  /\ \/ /\ alerts' = TrimAlerts(alerts_older, alerts).recent
        /\ alerts_older' = TrimAlerts(alerts_older, alerts).older
        /\ wpc' = [wpc EXCEPT ![w] = "idle"]
        /\ wloc' = [wloc EXCEPT ![w] = NoWloc]
        /\ UNCHANGED faults
     \/ AlertRaises(w)
  /\ UNCHANGED <<mon_client, event_log, log_older, log_ttl, alert_counters, times, events>>
  /\ UNCHANGED alert_env

\* the alerts the list holds at Init
AlertFills == {0, AlertListCap - 1, AlertListCap}

InitAlerts ==
  /\ AtRest
  /\ Calm
  /\ \E pushed \in AlertFills : MonitorHolding([t \in EventTypes |-> 0], pushed)

NextAlerts ==
  \/ \E w \in Writers, e \in AlertEvents : LogCounted(w, e[1], e[2])
  \/ \E w \in Writers : LPush(w)
  \/ \E w \in Writers : LTrim(w)

\* SpecAlerts: the invocations log events concurrently
SpecAlerts == InitAlerts /\ [][NextAlerts]_vars

\* the number of alerts in the list
AlertCount == Len(alerts) + alerts_older

\* the invocations that are inside _trigger_alert
InFlight == {w \in Writers : wpc[w] \in {"lpush", "ltrim"}}

\* an alert write puts its alert at the head of the list, and the trim that
\* completes it leaves at most 100 alerts, the head among them
AlertWriteSteps ==
  \A w \in Writers :
    /\ (wpc[w] = "lpush" /\ wpc'[w] = "ltrim")
         => alerts' # <<>> /\ Head(alerts') = wloc[w].alert /\ Tail(alerts') = alerts
    /\ (wpc[w] = "ltrim" /\ wpc'[w] = "idle" /\ faults' = faults)
         => /\ AlertCount' <= AlertListCap
            /\ alerts' # <<>> /\ Head(alerts') = Head(alerts)
            /\ alerts' = SubSeq(alerts, 1, Len(alerts'))

C36_NoAlertWithoutLog ==
  [][(events' = events + 1
      /\ ev'.fail \in {"client", "zadd", "zremrangebyrank", "expire"})
       => UNCHANGED <<alert_counters, alerts, alerts_older>>]_vars

\* the expiry of the log has raised for the event that would have brought
\* its counter to the threshold: the event is in the log, the counter is one
\* short and there is no alert
C36_Witness ==
  /\ ev.fail = "expire"
  /\ ev.event_type \in Rules /\ ev.ip_address # ""
  /\ \E e \in event_log : e.event_type = ev.event_type /\ e.timestamp = clock
  /\ alert_counters[AlertKey(ev.event_type, ev.ip_address)].count
       = Threshold(ev.event_type) - 1
  /\ alerts = <<>>

(***************************************************************************)
(* SpecConsole: log_security_event with the details and the severity its   *)
(* callers may give it; the store as in SpecMonitor.                       *)
(***************************************************************************)
\* the severity strings of the model's events: the default, one more of the
\* four of lines 119-124 and one that is none of them
Severities == {"info", "critical", "fatal"}

\* the events of SpecConsole, as (event_type, ip_address)
ConsoleEvents == {<<AUTH_FAILURE, "1.2.3.4">>, <<WEBHOOK_INVALID, "1.2.3.4">>}

NextConsole ==
  \/ \E e \in ConsoleEvents, details \in DetailsValues, severity \in Severities,
        fail \in MonSites :
        log_security_event(e[1], e[2], details, severity, fail)
  \/ \E d \in MonJumps : MonTick(d)

SpecConsole == InitMonitor /\ [][NextConsole]_vars

\* C37: log_event and log_security_event return normally whatever the details
\* map and the severity string of the event are, and the console line has
\* been written whether the store is available or not.
C37_LogEventReturnsForEveryEvent ==
  ev # NoEv => (ev.outcome = "returned" /\ ev.console # "")

(***************************************************************************)
(* What a call denied by the daily tier leaves behind (SpecEmbed).         *)
(***************************************************************************)
\* C38: a check_embedding_rate_limit call, no store call failing, that the
\* per-minute tier admits and the daily tier denies leaves its entry in the
\* per-minute window of 'ip:user_id' (one entry more, unless the limiter had
\* an entry of the same second there), and the denial by the daily tier is a
\* violation of the daily tier: an over-quota daily check raises the user's
\* daily violation counter by one and, from the third violation on, writes a
\* block record on the daily tier and answers BLOCKED.
C38_DailyDenialChargesBothTiers ==
  [][(/\ emb_calls' = emb_calls + 1
      /\ emb'.fail = <<"none", "none">>
      /\ Len(emb'.consulted) = 2
      /\ emb'.consulted[1].is_allowed
      /\ ~emb'.consulted[2].is_allowed)
       => LET k1 == WindowKey("EMBEDDING", emb'.consulted[1].identifier)
              k2 == WindowKey("EMBEDDING_DAILY", emb'.user_id)
              id1 == rate_limiters'[CacheKey("EMBEDDING", TRUE)].id
              daily == emb'.consulted[2].check
              v == store[k2].violations
          IN
          /\ ~emb'.allowed
          /\ id1 \in store'[k1].at_now
          /\ Count(store'[k1])
               = Count(store[k1]) + IF id1 \in store[k1].at_now THEN 0 ELSE 1
          /\ daily.result = RATE_LIMITED
               => (store'[k2].violations = v + 1 /\ v + 1 < BlockThreshold
                   /\ store'[k2].block = store[k2].block)
          /\ (daily.result = BLOCKED /\ daily.violations # None)
               => /\ store'[k2].violations = v + 1 /\ v + 1 >= BlockThreshold
                  /\ daily.violations = v + 1
                  /\ store'[k2].block = clock + BlockDuration(v + 1)
          /\ (daily.result = BLOCKED /\ daily.violations = None)
               => (IsBlocked(store[k2].block, clock) /\ store'[k2] = store[k2])]_vars

\* the last of the calls of a user whose daily quota is used up has been
\* admitted by the per-minute tier and answered BLOCKED by the daily tier,
\* which wrote the block record at the third violation
C38_Witness ==
  /\ emb_calls = MaxEmbedCalls
  /\ faults = 0
  /\ Len(emb.consulted) = 2
  /\ emb.consulted[1].is_allowed
  /\ emb.consulted[2].check.result = BLOCKED
  /\ emb.consulted[2].check.violations = BlockThreshold
  /\ store[WindowKey("EMBEDDING_DAILY", emb.user_id)].block = clock + BlockBase
  /\ emb.message = DailyMessage

(***************************************************************************)
(* SpecSubjects: the per-minute embedding check is made for subjects, each *)
(* an IP and a user id or none; store_keys gathers the keys addressed,     *)
(* each with the subject it was addressed for.                             *)
(***************************************************************************)
\* the subjects of the model, as (ip, user_id): IPv4 and IPv6 addresses, the
\* user id absent, empty or given
Subjects ==
  {<<"::1", NoUser>>, <<"::1", "">>, <<"::1", "2">>, <<"::1:2", NoUser>>,
   <<"10.0.0.1", NoUser>>, <<"10.0.0.1", "u1">>, <<"10.0.0.2", "u1">>}

\* the keys of the check of line 308 for a subject
SubjectKeys(subject) ==
  {[key |-> k.key, config_name |-> k.config_name, identifier |-> k.identifier,
    part |-> k.part, subject |-> subject] :
     k \in KeysOf("EMBEDDING", get_combined_identifier(subject[1], subject[2]))}

\* check_embedding_rate_limit(ip, user_id) up to its per-minute check
CheckSubject(subject) ==
  /\ SubjectKeys(subject) \cap store_keys = {}
  /\ store_keys' = store_keys \cup SubjectKeys(subject)
  /\ UNCHANGED <<check_vars, registry_vars, embed_vars, monitor_vars>>

NextSubjects == \E subject \in Subjects : CheckSubject(subject)

SpecSubjects == InitKeys /\ [][NextSubjects]_vars

\* C40: get_combined_identifier is injective on subjects: two different
\* (ip, user_id) pairs, the user id absent or empty or the IP holding ':'
\* included, are never given the same identifier.
C40_CombinedIdentifierInjective ==
  \A a, b \in store_keys :
    a.subject # b.subject => a.identifier # b.identifier
====
